---- MODULE Spec2Model ----
(***************************************************************************)
(* A model of the batch image/video tools of this repository:              *)
(*   - the aspect-ratio geometry of change_aspect_ratio.py                 *)
(*     (calculate_crop_position, resize_with_aspect_ratio),                *)
(*   - the batch loops of change_aspect_ratio.py, change_video_duration.py,*)
(*     optimize_images.py and image_to_video.py.                           *)
(* Python's int is unbounded and its float is an IEEE-754 binary64; the    *)
(* operators IntOfMul and IntOfDiv below evaluate int(a * (b / c)) and     *)
(* int(a / (b / c)) exactly as binary64 arithmetic does.                   *)
(***************************************************************************)
EXTENDS Integers, Sequences, FiniteSets, TLC

(***************************************************************************)
(* Bounds of the model.                                                    *)
(***************************************************************************)
\* Widths and heights of the geometry calls range over 1..MaxDim.
MaxDim == 5
\* A folder holds at most MaxFiles files.
MaxFiles == 3
MaxFrames == 3
MaxBytes == 25

Max(a, b) == IF a >= b THEN a ELSE b
Min(a, b) == IF a <= b THEN a ELSE b
Abs(a) == IF a >= 0 THEN a ELSE -a

RECURSIVE Pow2(_)
Pow2(k) == IF k <= 0 THEN 1 ELSE 2 * Pow2(k - 1)

(***************************************************************************)
(* IEEE-754 binary64 arithmetic on ratios of small positive integers.      *)
(*                                                                         *)
(* x = b / c is stored as X = M * 2^(e-52), e = floor(log2 x),             *)
(* M = round(x * 2^(52-e)).  With N = b * 2^(52-e) and t = N - M * c,      *)
(* X = x * (N - t) / N exactly: t > 0 when the quotient was rounded down,  *)
(* t < 0 when it was rounded up, t = 0 when b / c is representable.        *)
(* A second operation a * X or a / X is again rounded to nearest; int()    *)
(* of it differs from the exact floor only when the exact result is an     *)
(* integer n and the rounded one falls on the double just below n.         *)
(***************************************************************************)
RECURSIVE FloorLog2Up(_, _, _)
FloorLog2Up(b, c, e) == IF c * Pow2(e + 1) <= b THEN FloorLog2Up(b, c, e + 1) ELSE e

RECURSIVE FloorLog2Down(_, _, _)
FloorLog2Down(b, c, k) == IF b * Pow2(k) < c THEN FloorLog2Down(b, c, k + 1) ELSE k

\* floor(log2(b / c)) for positive integers b, c
FloorLog2(b, c) == IF b >= c THEN FloorLog2Up(b, c, 0) ELSE -FloorLog2Down(b, c, 1)

RECURSIVE Pow2Mod(_, _)
Pow2Mod(k, c) == IF k <= 0 THEN 1 % c ELSE (2 * Pow2Mod(k - 1, c)) % c

\* t of the comment above: the signed remainder of rounding b / c to 53 bits
RoundErr(b, c) ==
    LET t0 == ((b % c) * Pow2Mod(52 - FloorLog2(b, c), c)) % c
    IN  IF 2 * t0 <= c THEN t0 ELSE t0 - c

\* l <= b * 2^d, evaluated without forming a number beyond 2 * l
RECURSIVE LeqScaled(_, _, _)
LeqScaled(l, b, d) ==
    IF b >= l THEN TRUE
    ELSE IF d <= 0 THEN FALSE
    ELSE LeqScaled(l, 2 * b, d - 1)

\* n * (1 - |t| / N) rounds to the double below n (and not back to n):
\* n - n * (1 - |t| / N) exceeds half the distance from n to that double
FallsShort(n, t, b, c) ==
    LET e   == FloorLog2(b, c)
        en  == FloorLog2(n, 1)
        lhs == (IF n = Pow2(en) THEN 4 ELSE 2) * n * Abs(t)
        d   == en - e
    IN  IF d >= 0 THEN ~LeqScaled(lhs, b, d) ELSE ~(lhs * Pow2(-d) <= b)

\* Python: int(a * (b / c)), a, b, c positive ints
IntOfMul(a, b, c) ==
    LET n == (a * b) \div c
        t == RoundErr(b, c)
    IN  IF (a * b) % c # 0 \/ t <= 0 THEN n
        ELSE IF FallsShort(n, t, b, c) THEN n - 1 ELSE n

\* Python: int(a / (b / c)), a, b, c positive ints
IntOfDiv(a, b, c) ==
    LET n == (a * c) \div b
        t == RoundErr(b, c)
    IN  IF (a * c) % b # 0 \/ t >= 0 THEN n
        ELSE IF FallsShort(n, t, b, c) THEN n - 1 ELSE n

\* Python: (b1 / c1) > (b2 / c2); correctly rounded division is monotone and
\* distinct ratios of ints below 2^26 round to distinct doubles
AspectGreater(b1, c1, b2, c2) == b1 * c2 > b2 * c1

(***************************************************************************)
(* change_aspect_ratio.py: enumerations                                    *)
(***************************************************************************)
LETTERBOX == "letterbox"
CROP == "crop"
AspectRatioMode == {LETTERBOX, CROP}

CENTER == "center"
CropAnchor ==
    {"center", "upper_left", "upper_center", "upper_right", "center_left",
     "center_right", "lower_left", "lower_center", "lower_right"}

(***************************************************************************)
(* calculate_crop_position                                                 *)
(***************************************************************************)
\* the if/elif chain: the unclamped (x, y) of an anchor
\* mutant: an unknown anchor is taken for upper_left
AnchorOffset_unknown_upper_left(anchor, dx, dy) ==
    CASE anchor = "center"       -> <<dx \div 2, dy \div 2>>
      [] anchor = "upper_center" -> <<dx \div 2, 0>>
      [] anchor = "upper_right"  -> <<dx, 0>>
      [] anchor = "center_left"  -> <<0, dy \div 2>>
      [] anchor = "center_right" -> <<dx, dy \div 2>>
      [] anchor = "lower_left"   -> <<0, dy>>
      [] anchor = "lower_center" -> <<dx \div 2, dy>>
      [] anchor = "lower_right"  -> <<dx, dy>>
      [] OTHER                   -> <<0, 0>>

AnchorOffset(anchor, dx, dy) ==
    CASE anchor = "center"       -> <<dx \div 2, dy \div 2>>
      [] anchor = "upper_left"   -> <<0, 0>>
      [] anchor = "upper_center" -> <<dx \div 2, 0>>
      [] anchor = "upper_right"  -> <<dx, 0>>
      [] anchor = "center_left"  -> <<0, dy \div 2>>
      [] anchor = "center_right" -> <<dx, dy \div 2>>
      [] anchor = "lower_left"   -> <<0, dy>>
      [] anchor = "lower_center" -> <<dx \div 2, dy>>
      [] anchor = "lower_right"  -> <<dx, dy>>
      [] OTHER                   -> <<dx \div 2, dy \div 2>>

\* mutant: the target size is not subtracted from the source size
calculate_crop_position_no_subtract(original_width, original_height, target_width, target_height, anchor) ==
    LET xy == AnchorOffset(anchor, original_width, original_height)
    IN  <<Max(0, xy[1]), Max(0, xy[2])>>

\* mutant: the result is not clamped with max(0, .)
calculate_crop_position_unclamped(original_width, original_height, target_width, target_height, anchor) ==
    AnchorOffset(anchor, original_width - target_width, original_height - target_height)

calculate_crop_position(original_width, original_height, target_width, target_height, anchor) ==
    LET xy == AnchorOffset(anchor, original_width - target_width,
                           original_height - target_height)
    IN  <<Max(0, xy[1]), Max(0, xy[2])>>

(***************************************************************************)
(* Images.  An image is [width, height, px], px a function from            *)
(* <<row, col>> to a pixel.  A pixel is [kind, val]:                       *)
(*   "src"       val = <<row, col>>      pixel of a decoded source image   *)
(*   "fill"      val = <<b, g, r>>       pixel written by np.full          *)
(*   "resampled" val = <<x, y, w, h>>    output of cv2.resize, computed    *)
(*                                       from that window of the source    *)
(***************************************************************************)
Image(w, h, pixel(_)) ==
    [width |-> w, height |-> h, px |-> [p \in (0 .. h - 1) \X (0 .. w - 1) |-> pixel(p)]]

NoImage == [width |-> 0, height |-> 0, px |-> <<>>]

\* an image as cv2.imread / cap.read() deliver it
SourceImage(w, h) ==
    LET pixel(p) == [kind |-> "src", val |-> p] IN Image(w, h, pixel)

\* numpy: the bound i of a slice of an axis of length n
SliceBound(i, n) == IF i < 0 THEN Max(0, i + n) ELSE Min(i, n)

\* numpy: image[y0:y1, x0:x1]
Slice2D(image, y0, y1, x0, x1) ==
    LET r0 == SliceBound(y0, image.height)
        r1 == Max(r0, SliceBound(y1, image.height))
        c0 == SliceBound(x0, image.width)
        c1 == Max(c0, SliceBound(x1, image.width))
        pixel(p) == image.px[<<p[1] + r0, p[2] + c0>>]
    IN  Image(c1 - c0, r1 - r0, pixel)

\* the window <<x, y, w, h>> of source pixels an image is made of
Window(image) ==
    LET rows == {image.px[p].val[1] : p \in DOMAIN image.px}
        cols == {image.px[p].val[2] : p \in DOMAIN image.px}
        lo(S) == CHOOSE m \in S : \A k \in S : m <= k
    IN  IF DOMAIN image.px = {} THEN <<0, 0, 0, 0>>
        ELSE <<lo(cols), lo(rows), Cardinality(cols), Cardinality(rows)>>

\* cv2.resize(image, (w, h), interpolation=...): OpenCV asserts that the
\* source and the requested size are not empty and raises cv2.error otherwise
cv2_resize(image, w, h) ==
    IF image.width <= 0 \/ image.height <= 0 \/ w <= 0 \/ h <= 0
    THEN [raised |-> TRUE, image |-> NoImage]
    ELSE LET win == Window(image)
             pixel(p) == [kind |-> "resampled", val |-> win]
         IN  [raised |-> FALSE, image |-> Image(w, h, pixel)]

\* np.full((h, w, channels), color)
np_full(h, w, color) ==
    LET pixel(p) == [kind |-> "fill", val |-> color] IN Image(w, h, pixel)

\* numpy: canvas[y0:y1, x0:x1] = image; raises ValueError when the shape of
\* image cannot be broadcast to the shape of the slice
SetSlice2D(canvas, y0, y1, x0, x1, image) ==
    LET r0 == SliceBound(y0, canvas.height)
        r1 == Max(r0, SliceBound(y1, canvas.height))
        c0 == SliceBound(x0, canvas.width)
        c1 == Max(c0, SliceBound(x1, canvas.width))
        fits == /\ image.height \in {1, r1 - r0}
                /\ image.width \in {1, c1 - c0}
        pixel(p) ==
            IF p[1] >= r0 /\ p[1] < r1 /\ p[2] >= c0 /\ p[2] < c1
            THEN image.px[<<IF image.height = 1 THEN 0 ELSE p[1] - r0,
                            IF image.width = 1 THEN 0 ELSE p[2] - c0>>]
            ELSE canvas.px[p]
    IN  IF fits
        THEN [raised |-> FALSE, image |-> Image(canvas.width, canvas.height, pixel)]
        ELSE [raised |-> TRUE, image |-> NoImage]

(***************************************************************************)
(* resize_with_aspect_ratio.  The result is [raised, image, locals]:       *)
(* locals holds the local variables assigned when the function returned    *)
(* or raised.                                                              *)
(***************************************************************************)
\* LETTERBOX mode, wider the outcome of original_aspect > target_aspect
LetterboxFit(image, target_width, target_height, letterbox_color, wider) ==
    LET original_height == image.height
        original_width  == image.width
        new_width  == IF wider THEN target_width
                      ELSE IntOfMul(target_height, original_width, original_height)
        new_height == IF wider THEN IntOfDiv(target_width, original_width, original_height)
                      ELSE target_height
        resized  == cv2_resize(image, new_width, new_height)
        canvas   == np_full(target_height, target_width, letterbox_color)
        x_offset == (target_width - new_width) \div 2
        y_offset == (target_height - new_height) \div 2
        pasted   == SetSlice2D(canvas, y_offset, y_offset + new_height,
                               x_offset, x_offset + new_width, resized.image)
        sizes    == [new_width |-> new_width, new_height |-> new_height]
        offsets  == [new_width |-> new_width, new_height |-> new_height,
                     x_offset |-> x_offset, y_offset |-> y_offset]
    IN  IF resized.raised THEN [raised |-> TRUE, image |-> NoImage, locals |-> sizes]
        ELSE IF pasted.raised THEN [raised |-> TRUE, image |-> NoImage, locals |-> offsets]
        ELSE [raised |-> FALSE, image |-> pasted.image, locals |-> offsets]

\* mutant: the content is fitted to the wrong side of the canvas
LetterboxBranch_wrong_side(image, target_width, target_height, letterbox_color) ==
    LetterboxFit(image, target_width, target_height, letterbox_color,
                 ~AspectGreater(image.width, image.height, target_width, target_height))

LetterboxBranch(image, target_width, target_height, letterbox_color) ==
    LetterboxFit(image, target_width, target_height, letterbox_color,
                 AspectGreater(image.width, image.height, target_width, target_height))

CropBranch(image, target_width, target_height, anchor) ==
    LET original_height == image.height
        original_width  == image.width
        wider == AspectGreater(original_width, original_height, target_width, target_height)
        crop_height == IF wider THEN original_height
                       ELSE IntOfDiv(original_width, target_width, target_height)
        crop_width  == IF wider THEN IntOfMul(original_height, target_width, target_height)
                       ELSE original_width
        xy == calculate_crop_position(original_width, original_height,
                                      crop_width, crop_height, anchor)
        cropped == Slice2D(image, xy[2], xy[2] + crop_height, xy[1], xy[1] + crop_width)
        resized == cv2_resize(cropped, target_width, target_height)
        window  == [crop_width |-> crop_width, crop_height |-> crop_height,
                    x |-> xy[1], y |-> xy[2]]
    IN  [raised |-> resized.raised, image |-> resized.image, locals |-> window]

resize_with_aspect_ratio(image, target_width, target_height, mode, anchor, letterbox_color) ==
    IF mode = LETTERBOX
    THEN LetterboxBranch(image, target_width, target_height, letterbox_color)
    ELSE CropBranch(image, target_width, target_height, anchor)

(***************************************************************************)
(* State.                                                                  *)
(*   call, ret, gpc: one call of a geometry function: its arguments, its   *)
(*     result and whether it has returned.                                 *)
(*   the other variables: one run of a batch tool (see below).             *)
(***************************************************************************)
VARIABLES call, ret, gpc,
          tool, params, folder, media_files, pos, success_count, fail_count,
          attempted, errors, open_handles, report, pc, exit_status,
          disk, notices

geomVars == <<call, ret, gpc>>
batchVars == <<tool, params, folder, media_files, pos, success_count, fail_count,
               attempted, errors, open_handles, report, pc, exit_status,
               disk, notices>>
vars == <<call, ret, gpc, tool, params, folder, media_files, pos, success_count,
          fail_count, attempted, errors, open_handles, report, pc, exit_status,
          disk, notices>>

\* no batch tool is running
BatchIdle ==
    /\ tool = "none" /\ params = <<>> /\ folder = {} /\ media_files = <<>>
    /\ pos = 0 /\ success_count = 0 /\ fail_count = 0 /\ attempted = <<>>
    /\ errors = {} /\ open_handles = {} /\ report = <<>> /\ pc = "idle"
    /\ exit_status = 0
    /\ disk = [input_exists |-> FALSE, output_exists |-> FALSE, written |-> {}, mapping |-> FALSE]
    /\ notices = {}

\* no geometry call is under way
GeomIdle == call = <<>> /\ ret = <<>> /\ gpc = "idle"

(***************************************************************************)
(* Calls of calculate_crop_position                                        *)
(***************************************************************************)
Dims == 1 .. MaxDim

\* sizes used by tests/test_change_aspect_ratio.py
TestSizes == {<<1920, 1080, 1080, 1080>>, <<100, 100, 200, 200>>}

\* <<original_width, original_height, target_width, target_height>>
CropSizes == (Dims \X Dims \X Dims \X Dims) \cup TestSizes

\* the anchor argument is not type-checked at run time
AnchorArgs == CropAnchor \cup {"not_an_anchor"}

InitCrop ==
    /\ BatchIdle
    /\ gpc = "call"
    /\ ret = <<>>
    /\ \E s \in CropSizes, a \in AnchorArgs :
          call = [fn |-> "calculate_crop_position",
                  original_width |-> s[1], original_height |-> s[2],
                  target_width |-> s[3], target_height |-> s[4], anchor |-> a]

CallCalculateCropPosition ==
    /\ gpc = "call"
    /\ call.fn = "calculate_crop_position"
    /\ ret' = calculate_crop_position(call.original_width, call.original_height,
                                      call.target_width, call.target_height, call.anchor)
    /\ gpc' = "returned"
    /\ UNCHANGED <<call, batchVars>>

NextCrop == CallCalculateCropPosition

SpecCrop == InitCrop /\ [][NextCrop]_vars

(***************************************************************************)
(* Calls of resize_with_aspect_ratio                                       *)
(***************************************************************************)
\* BGR colours: black (the default) and a custom one
LetterboxColors == {<<0, 0, 0>>, <<30, 20, 10>>}

\* main() passes the chosen anchor with the default colour in CROP mode and
\* the chosen colour with the default anchor in LETTERBOX mode
ModeArgs ==
    {[mode |-> LETTERBOX, anchor |-> CENTER, letterbox_color |-> c] : c \in LetterboxColors}
    \cup {[mode |-> CROP, anchor |-> a, letterbox_color |-> <<0, 0, 0>>] : a \in AnchorArgs}

\* sizes at which binary64 rounds below the exact quotient or product:
\* int(9 / (9 / 7)) is 6, int(49 * (1 / 49)) is 0 and int(49 * (2 / 49)) is 1
RoundingSizes == {<<9, 7, 9, 7>>, <<9, 7, 9, 8>>, <<1, 49, 1, 49>>, <<2, 49, 2, 49>>}

\* <<original_width, original_height, target_width, target_height>>
FitSizes == (Dims \X Dims \X Dims \X Dims) \cup RoundingSizes

InitFit ==
    /\ BatchIdle
    /\ gpc = "call"
    /\ ret = <<>>
    /\ \E s \in FitSizes, m \in ModeArgs :
          call = [fn |-> "resize_with_aspect_ratio",
                  original_width |-> s[1], original_height |-> s[2],
                  target_width |-> s[3], target_height |-> s[4],
                  mode |-> m.mode, anchor |-> m.anchor,
                  letterbox_color |-> m.letterbox_color]

CallResizeWithAspectRatio ==
    /\ gpc = "call"
    /\ call.fn = "resize_with_aspect_ratio"
    /\ ret' = resize_with_aspect_ratio(
                  SourceImage(call.original_width, call.original_height),
                  call.target_width, call.target_height,
                  call.mode, call.anchor, call.letterbox_color)
    /\ gpc' = "returned"
    /\ UNCHANGED <<call, batchVars>>

NextFit == CallResizeWithAspectRatio

SpecFit == InitFit /\ [][NextFit]_vars

(***************************************************************************)
(* Claims about calculate_crop_position (checked under SpecCrop)           *)
(***************************************************************************)
CropReturned == gpc = "returned" /\ call.fn = "calculate_crop_position"

\* C1: for each of the nine anchors and a source at least as large as the
\* target in both directions, the returned (x, y) is a window position
\* inside the source: x >= 0, y >= 0, x + target_width <= original_width,
\* y + target_height <= original_height.
C1_CropPositionInsideSource ==
    ( /\ CropReturned
      /\ call.anchor \in CropAnchor
      /\ call.original_width >= call.target_width
      /\ call.original_height >= call.target_height )
    => /\ ret[1] >= 0
       /\ ret[2] >= 0
       /\ ret[1] + call.target_width <= call.original_width
       /\ ret[2] + call.target_height <= call.original_height

\* C1 witness: lower_right on a source strictly larger than the target puts
\* the window flush with the right and bottom edges.
C1_Witness ==
    /\ CropReturned
    /\ call.anchor = "lower_right"
    /\ call.original_width > call.target_width
    /\ call.original_height > call.target_height
    /\ ret[1] > 0 /\ ret[2] > 0
    /\ ret[1] + call.target_width = call.original_width
    /\ ret[2] + call.target_height = call.original_height

\* integer division truncating toward zero
TruncDiv(a, b) == IF a >= 0 THEN a \div b ELSE -((-a) \div b)

\* the per-anchor table of the specification
TableX(anchor, dx) ==
    IF anchor \in {"upper_left", "center_left", "lower_left"} THEN 0
    ELSE IF anchor \in {"upper_right", "center_right", "lower_right"} THEN dx
    ELSE TruncDiv(dx, 2)

TableY(anchor, dy) ==
    IF anchor \in {"upper_left", "upper_center", "upper_right"} THEN 0
    ELSE IF anchor \in {"lower_left", "lower_center", "lower_right"} THEN dy
    ELSE TruncDiv(dy, 2)

\* C2: for every anchor and all sizes, a target larger than the source
\* included, the result is the table value (0, dx/2 or dx; 0, dy/2 or dy),
\* the division truncating toward zero, clamped with max(0, .);
\* (1920x1080, 1080x1080) gives (840, 0) for upper_right and (420, 0) for
\* center.
C2_CropPositionTable ==
    ( CropReturned /\ call.anchor \in CropAnchor )
    => LET dx == call.original_width - call.target_width
           dy == call.original_height - call.target_height
           example == /\ call.original_width = 1920 /\ call.original_height = 1080
                      /\ call.target_width = 1080 /\ call.target_height = 1080
       IN  /\ ret = <<Max(0, TableX(call.anchor, dx)), Max(0, TableY(call.anchor, dy))>>
           /\ (example /\ call.anchor = "upper_right") => ret = <<840, 0>>
           /\ (example /\ call.anchor = "center") => ret = <<420, 0>>

\* C2 witness: center with a target three pixels wider than the source (floor
\* and truncating division differ on dx = -3) and one pixel lower.
C2_Witness ==
    /\ CropReturned
    /\ call.anchor = "center"
    /\ call.original_width - call.target_width = -3
    /\ call.original_height - call.target_height = 3
    /\ ret = <<0, 1>>

(***************************************************************************)
(* Claims about resize_with_aspect_ratio (checked under SpecFit)           *)
(***************************************************************************)
FitReturned == gpc = "returned" /\ call.fn = "resize_with_aspect_ratio"

\* the canvas holds the resized content at the paste offsets, whole
ContentPasted(image, locals) ==
    \A r \in 0 .. locals.new_height - 1, c \in 0 .. locals.new_width - 1 :
        /\ <<locals.y_offset + r, locals.x_offset + c>> \in DOMAIN image.px
        /\ image.px[<<locals.y_offset + r, locals.x_offset + c>>].kind = "resampled"

\* every pixel of the canvas outside the content rectangle has the colour
BorderFilled(image, locals, color) ==
    \A p \in DOMAIN image.px :
        ( \/ p[1] < locals.y_offset \/ p[1] >= locals.y_offset + locals.new_height
          \/ p[2] < locals.x_offset \/ p[2] >= locals.x_offset + locals.new_width )
        => image.px[p] = [kind |-> "fill", val |-> color]

LetterboxCanvas ==
    /\ ~ret.raised
    /\ ret.image.width = call.target_width
    /\ ret.image.height = call.target_height
    /\ DOMAIN ret.image.px = (0 .. call.target_height - 1) \X (0 .. call.target_width - 1)
    /\ ret.locals.new_width >= 1 /\ ret.locals.new_height >= 1
    /\ ContentPasted(ret.image, ret.locals)
    /\ BorderFilled(ret.image, ret.locals, call.letterbox_color)

\* C3: for every positive source and target size and every colour, LETTERBOX
\* mode returns a canvas of exactly the target size that holds the whole
\* resized content, every pixel outside it having the letterbox colour.
C3_LetterboxAlwaysReturnsCanvas ==
    ( FitReturned /\ call.mode = LETTERBOX ) => LetterboxCanvas

\* C3, as the code has it: the canvas is returned whenever neither computed
\* dimension of the resized content is 0.
C3_LetterboxCanvasUnlessEmptyResize ==
    ( FitReturned /\ call.mode = LETTERBOX )
    => IF ret.locals.new_width >= 1 /\ ret.locals.new_height >= 1
       THEN LetterboxCanvas ELSE ret.raised

CropResult ==
    /\ ~ret.raised
    /\ ret.image.width = call.target_width
    /\ ret.image.height = call.target_height
    /\ DOMAIN ret.image.px = (0 .. call.target_height - 1) \X (0 .. call.target_width - 1)
    /\ \A p \in DOMAIN ret.image.px :
          LET pixel == ret.image.px[p] IN
          /\ pixel.kind = "resampled"
          /\ pixel.val[3] >= 1 /\ pixel.val[4] >= 1
          /\ pixel.val[1] >= 0 /\ pixel.val[1] + pixel.val[3] <= call.original_width
          /\ pixel.val[2] >= 0 /\ pixel.val[2] + pixel.val[4] <= call.original_height

\* C4: for every positive source and target size and every anchor, CROP mode
\* returns an image of exactly the target size, every pixel resampled from a
\* non-empty window of the source (no fill pixel).
C4_CropAlwaysReturnsSourcePixels ==
    ( FitReturned /\ call.mode = CROP ) => CropResult

\* C4, as the code has it: the image is returned whenever neither computed
\* dimension of the crop window is 0.
C4_CropResultUnlessEmptyWindow ==
    ( FitReturned /\ call.mode = CROP )
    => IF ret.locals.crop_width >= 1 /\ ret.locals.crop_height >= 1
       THEN CropResult ELSE ret.raised

\* C5: in every call the crop window of CROP mode lies inside the source and
\* the paste offsets of LETTERBOX mode are >= 0 with the content inside the
\* canvas.
C5_OffsetsInBounds ==
    FitReturned =>
        /\ call.mode = CROP =>
              /\ ret.locals.x >= 0
              /\ ret.locals.y >= 0
              /\ ret.locals.x + ret.locals.crop_width <= call.original_width
              /\ ret.locals.y + ret.locals.crop_height <= call.original_height
        /\ ( call.mode = LETTERBOX /\ "x_offset" \in DOMAIN ret.locals ) =>
              /\ ret.locals.x_offset >= 0
              /\ ret.locals.y_offset >= 0
              /\ ret.locals.x_offset + ret.locals.new_width <= call.target_width
              /\ ret.locals.y_offset + ret.locals.new_height <= call.target_height

\* C5 witness: a LETTERBOX call whose content is pasted below a top bar.
C5_Witness ==
    /\ FitReturned
    /\ call.mode = LETTERBOX
    /\ ~ret.raised
    /\ ret.locals.y_offset >= 1
    /\ ret.locals.y_offset + ret.locals.new_height < call.target_height

\* C5 witness of the other mode: a CROP window flush with the right edge.
C5_WitnessCrop ==
    /\ FitReturned
    /\ call.mode = CROP
    /\ call.anchor = "lower_right"
    /\ ret.locals.x >= 1
    /\ ret.locals.x + ret.locals.crop_width = call.original_width

(***************************************************************************)
(* Folders and files                                                       *)
(*                                                                         *)
(* A file is [name, ext, content]: name is its place in the order of the   *)
(* paths (sorted() compares the paths), ext its suffix, content what the   *)
(* decoders find in it: ok (cv2.imread returns an array, cv2.VideoCapture  *)
(* opens, PIL and moviepy read it), the frame size and the number of       *)
(* frames.                                                                 *)
(***************************************************************************)
IMAGE_EXTENSIONS == {".jpg", ".jpeg", ".png", ".gif", ".bmp", ".webp", ".tiff"}
VIDEO_EXTENSIONS == {".mp4", ".avi", ".mov", ".mkv", ".webm"}

\* str.lower() on the suffixes of the model
Lower(ext) ==
    CASE ext = ".JPG" -> ".jpg"
      [] ext = ".MP4" -> ".mp4"
      [] OTHER -> ext

\* suffixes of the files of a folder
FolderExts == {".jpg", ".mp4", ".txt"}

\* <<width, height>> of the decodable files
FileShapes == {<<2, 2>>, <<1, 2>>}

\* frame counts of the decodable videos
VideoLengths == {0, 1}

Undecodable == [ok |-> FALSE, width |-> 0, height |-> 0, frames |-> 0]

Contents(ext) ==
    IF Lower(ext) \in IMAGE_EXTENSIONS
    THEN {Undecodable} \cup
         {[ok |-> TRUE, width |-> s[1], height |-> s[2], frames |-> 1] : s \in FileShapes}
    ELSE IF Lower(ext) \in VIDEO_EXTENSIONS
    THEN {Undecodable} \cup
         {[ok |-> TRUE, width |-> s[1], height |-> s[2], frames |-> n] :
             s \in FileShapes, n \in VideoLengths}
    ELSE {Undecodable}

FilesNamed(n) ==
    UNION {{[name |-> n, ext |-> e, content |-> c] : c \in Contents(e)} : e \in FolderExts}

\* the folders whose files have names among 1..k, no two the same name
RECURSIVE Folders(_)
Folders(k) ==
    IF k = 0 THEN {{}}
    ELSE Folders(k - 1) \cup {F \cup {f} : F \in Folders(k - 1), f \in FilesNamed(k)}

\* sorted(files) of a list of paths
RECURSIVE Sorted(_)
Sorted(files) ==
    IF files = <<>> THEN <<>>
    ELSE LET i == CHOOSE i \in 1 .. Len(files) :
                      \A j \in 1 .. Len(files) : files[i].name <= files[j].name
             rest == [j \in 1 .. Len(files) - 1 |-> IF j < i THEN files[j] ELSE files[j + 1]]
         IN  <<files[i]>> \o Sorted(rest)

\* the files of a set, as a list in some order
RECURSIVE AsList(_)
AsList(S) ==
    IF S = {} THEN <<>>
    ELSE LET f == CHOOSE f \in S : TRUE IN <<f>> \o AsList(S \ {f})

\* every order in which iterdir() may deliver the files of a set
RECURSIVE Orders(_)
Orders(S) ==
    IF S = {} THEN {<<>>}
    ELSE UNION {{<<f>> \o rest : rest \in Orders(S \ {f})} : f \in S}

\* folder_path.glob(f"*{ext}"): the match is case-sensitive
Glob(dir, ext) == AsList({f \in dir : f.ext = ext})

\* for ext in exts: files.extend(folder_path.glob(f"*{ext}"))
RECURSIVE GlobAll(_, _)
GlobAll(dir, exts) ==
    IF exts = {} THEN <<>>
    ELSE LET e == CHOOSE e \in exts : TRUE
         IN  Glob(dir, e) \o GlobAll(dir, exts \ {e})

\* change_aspect_ratio.get_media_files, the folder existing
get_media_files(dir, media_type) ==
    Sorted( (IF media_type \in {"images", "both"} THEN GlobAll(dir, IMAGE_EXTENSIONS) ELSE <<>>)
            \o (IF media_type \in {"videos", "both"} THEN GlobAll(dir, VIDEO_EXTENSIONS) ELSE <<>>) )

\* change_video_duration.get_video_files, the folder existing
get_video_files(dir) == Sorted(GlobAll(dir, VIDEO_EXTENSIONS))

\* get_media_files from its first line: for a folder that does not exist it
\* prints folder_not_exist_error and returns []
get_media_files_from(exists, dir, media_type) ==
    IF ~exists
    THEN [files |-> <<>>, raised |-> FALSE, printed |-> {"folder_not_exist_error"}]
    ELSE [files |-> get_media_files(dir, media_type), raised |-> FALSE, printed |-> {}]

\* get_video_files from its first line
get_video_files_from(exists, dir) ==
    IF ~exists
    THEN [files |-> <<>>, raised |-> FALSE, printed |-> {"folder_not_exist_error"}]
    ELSE [files |-> get_video_files(dir), raised |-> FALSE, printed |-> {}]

(***************************************************************************)
(* The per-file operations.  Each yields [outcome, reported, leaked]:      *)
(* outcome "true" or "false" is the value returned, "raise" an exception   *)
(* leaving the function; reported tells that an error message was printed; *)
(* leaked is the set of handles opened and not released when the function  *)
(* is left.                                                                *)
(***************************************************************************)
Outcome(o, r, l) == [outcome |-> o, reported |-> r, leaked |-> l]

\* process_image without its try/except: the exception of the transform
\* leaves the function
process_image_uncaught(file, p) ==
    IF ~file.content.ok
    THEN Outcome("false", TRUE, {})
    ELSE LET result == resize_with_aspect_ratio(
                           SourceImage(file.content.width, file.content.height),
                           p.target_width, p.target_height, p.mode, p.anchor,
                           p.letterbox_color)
         IN  IF result.raised
             THEN Outcome("raise", FALSE, {})
             ELSE Outcome("true", FALSE, {})

\* change_aspect_ratio.process_image
process_image(file, p) ==
    IF ~file.content.ok
    THEN Outcome("false", TRUE, {})                        \* image is None
    ELSE LET result == resize_with_aspect_ratio(
                           SourceImage(file.content.width, file.content.height),
                           p.target_width, p.target_height, p.mode, p.anchor,
                           p.letterbox_color)
         IN  IF result.raised
             THEN Outcome("false", TRUE, {})               \* except Exception
             ELSE Outcome("true", FALSE, {})

\* change_aspect_ratio.process_video; the videos of the model are shorter
\* than VIDEO_PROGRESS_FRAME_INTERVAL frames
process_video(file, p) ==
    IF ~file.content.ok
    THEN Outcome("false", TRUE, {})                        \* not cap.isOpened()
    ELSE IF file.content.frames = 0
    THEN Outcome("true", FALSE, {})                        \* cap.release(); out.release()
    ELSE LET processed_frame == resize_with_aspect_ratio(
                           SourceImage(file.content.width, file.content.height),
                           p.target_width, p.target_height, p.mode, p.anchor,
                           p.letterbox_color)
         IN  IF processed_frame.raised
             THEN Outcome("false", TRUE, {"cap", "out"})   \* except Exception
             ELSE Outcome("true", FALSE, {})               \* cap.release(); out.release()

\* change_video_duration.create_video_with_duration: int(target_duration *
\* fps) raises OverflowError or ValueError when target_duration is inf or nan
create_video_with_duration(file, p) ==
    IF ~file.content.ok
    THEN Outcome("false", TRUE, {})                        \* not cap.isOpened()
    ELSE IF ~p.target_duration_finite
    THEN Outcome("raise", FALSE, {"cap"})                  \* int() raises
    ELSE IF file.content.frames = 0
    THEN Outcome("false", TRUE, {"out"})                   \* cap.release() only
    ELSE Outcome("true", FALSE, {})                        \* cap.release(); out.release()

\* change_video_duration.get_video_duration: None (here "false") with an error
\* message for a video that does not open, the duration otherwise
get_video_duration(file) ==
    IF ~file.content.ok THEN Outcome("false", TRUE, {}) ELSE Outcome("true", FALSE, {})

\* optimize_images.optimize_image: Image.open raises on what PIL cannot read
optimize_image(file) ==
    IF ~file.content.ok THEN Outcome("raise", FALSE, {}) ELSE Outcome("true", FALSE, {})

\* image_to_video.image_to_video: ImageClip raises on what it cannot read
image_to_video(file) ==
    IF ~file.content.ok THEN Outcome("raise", FALSE, {}) ELSE Outcome("true", FALSE, {})

(***************************************************************************)
(* The batch runs.  pos is the number of files the loop has been through,  *)
(* attempted the list of [name, outcome] of the per-file calls made,       *)
(* errors the names of the files an error message was printed for,         *)
(* open_handles the <<name, handle>> opened and never released, report the *)
(* numbers printed by the summary line, exit_status what the process exits *)
(* with once pc is "done" or "crashed".                                    *)
(***************************************************************************)
Tools == {"change_aspect_ratio", "change_video_duration", "optimize_images", "image_to_video",
          "create_video_mapping"}

\* <<target_width, target_height>> entered by the user
TargetSizes == {<<2, 1>>}

\* change_aspect_ratio.main with the default anchor and colour
AspectParams ==
    {[media_type |-> t, target_width |-> s[1], target_height |-> s[2], mode |-> m,
      anchor |-> CENTER, letterbox_color |-> <<0, 0, 0>>] :
        t \in {"images", "videos", "both"}, s \in TargetSizes, m \in AspectRatioMode}

\* change_video_duration.get_float_input: float() accepts "inf" and "nan"
DurationParams == {[target_duration_finite |-> b] : b \in BOOLEAN}

ParamsOf(t) ==
    CASE t = "change_aspect_ratio" -> AspectParams
      [] t = "change_video_duration" -> DurationParams
      [] OTHER -> {<<>>}

Init ==
    /\ GeomIdle
    /\ tool \in Tools
    /\ params \in ParamsOf(tool)
    /\ \E input_exists \in BOOLEAN :
           /\ folder \in (IF input_exists THEN Folders(MaxFiles) ELSE {{}})
           /\ disk = [input_exists |-> input_exists, output_exists |-> FALSE, written |-> {}, mapping |-> FALSE]
    /\ notices = {}
    /\ media_files = <<>>
    /\ pos = 0
    /\ success_count = 0
    /\ fail_count = 0
    /\ attempted = <<>>
    /\ errors = {}
    /\ open_handles = {}
    /\ report = <<>>
    /\ pc = "start"
    /\ exit_status = 0

\* Path.mkdir(parents=True, exist_ok=True) on the output folder
Mkdir(d) == [d EXCEPT !.output_exists = TRUE]

\* the end of the discovery of a run: the folder state d and the messages
\* printed so far, then the files found; with none the run returns
Discovered(files, d, printed) ==
    /\ media_files' = files
    /\ disk' = d
    /\ notices' = notices \cup printed
    /\ pc' = IF files = <<>> THEN "done" ELSE "loop"
    /\ UNCHANGED <<geomVars, tool, params, folder, pos, success_count, fail_count,
                   attempted, errors, open_handles, report, exit_status>>

\* one per-file call with result r made by a loop that catches the
\* exceptions of the call iff catches; the handles the call left behind stay
\* open unless the garbage collector has finalized them; a call that
\* succeeded has written its output file
Attempted(r, catches) ==
    LET file == media_files[pos + 1] IN
    /\ attempted' = Append(attempted, [name |-> file.name, outcome |-> r.outcome])
    /\ \E finalized \in SUBSET r.leaked :
           open_handles' = open_handles \cup {<<file.name, h>> : h \in r.leaked \ finalized}
    /\ IF r.outcome = "raise" /\ ~catches
       THEN /\ pc' = "crashed"
            /\ exit_status' = 1
            /\ UNCHANGED <<pos, success_count, fail_count, errors>>
       ELSE /\ pos' = pos + 1
            /\ success_count' = IF r.outcome = "true" THEN success_count + 1 ELSE success_count
            /\ fail_count' = IF r.outcome = "raise" THEN fail_count + 1 ELSE fail_count
            /\ errors' = IF r.reported \/ r.outcome = "raise"
                         THEN errors \cup {file.name} ELSE errors
            /\ UNCHANGED <<pc, exit_status>>
    /\ disk' = IF r.outcome = "true" /\ tool # "create_video_mapping"
               THEN [disk EXCEPT !.written = @ \cup {file.name}] ELSE disk
    /\ UNCHANGED <<geomVars, tool, params, folder, media_files, report, notices>>

\* the summary line with its numbers, then the return to the end of main
Summary(numbers) ==
    /\ report' = numbers
    /\ pc' = "done"
    /\ exit_status' = 0
    /\ UNCHANGED <<geomVars, tool, params, folder, media_files, pos, success_count,
                   fail_count, attempted, errors, open_handles, notices>>

InLoop(t) == tool = t /\ pc = "loop" /\ pos < Len(media_files)
AtEnd(t) == tool = t /\ pc = "loop" /\ pos = Len(media_files)

\* change_aspect_ratio.batch_process: the output folder is made before the
\* files are looked for
batch_process_start ==
    /\ tool = "change_aspect_ratio" /\ pc = "start"
    /\ LET found == get_media_files_from(disk.input_exists, folder, params.media_type)
       IN  Discovered(found.files, Mkdir(disk),
                      {"folder_created_info"} \cup found.printed
                      \cup (IF found.files = <<>> THEN {"no_media_files_warning"} ELSE {}))

batch_process_file ==
    /\ InLoop("change_aspect_ratio")
    /\ LET media_file == media_files[pos + 1]
           is_image == Lower(media_file.ext) \in IMAGE_EXTENSIONS
       IN  Attempted(IF is_image THEN process_image(media_file, params)
                                 ELSE process_video(media_file, params), FALSE)

batch_process_end ==
    /\ AtEnd("change_aspect_ratio")
    /\ Summary(<<success_count>>)
    /\ UNCHANGED disk

\* change_video_duration.batch_adjust_durations: ensure_folder_exists makes
\* the output folder, then looks at the input folder
batch_adjust_durations_start ==
    /\ tool = "change_video_duration" /\ pc = "start"
    /\ IF ~disk.input_exists
       THEN Discovered(<<>>, Mkdir(disk), {"folder_created_info", "folder_not_exist_error"})
       ELSE LET found == get_video_files_from(TRUE, folder)
            IN  Discovered(found.files, Mkdir(disk),
                           {"folder_created_info"} \cup found.printed
                           \cup (IF found.files = <<>> THEN {"no_video_files_warning"} ELSE {}))

batch_adjust_durations_file ==
    /\ InLoop("change_video_duration")
    /\ Attempted(create_video_with_duration(media_files[pos + 1], params), FALSE)

batch_adjust_durations_end ==
    /\ AtEnd("change_video_duration")
    /\ Summary(<<success_count>>)
    /\ UNCHANGED disk

\* change_video_duration.create_video_mapping
create_video_mapping_start ==
    /\ tool = "create_video_mapping" /\ pc = "start"
    /\ LET found == get_video_files_from(disk.input_exists, folder)
       IN  Discovered(found.files, disk,
                      found.printed
                      \cup (IF found.files = <<>> THEN {"folder_not_exist_error"} ELSE {}))

create_video_mapping_file ==
    /\ InLoop("create_video_mapping")
    /\ Attempted(get_video_duration(media_files[pos + 1]), FALSE)

\* the mapping file is written and the number of lines without ERROR printed
create_video_mapping_end ==
    /\ AtEnd("create_video_mapping")
    /\ Summary(<<success_count>>)
    /\ disk' = [disk EXCEPT !.mapping = TRUE]

\* optimize_images.optimize_directory under optimize_images.main, with an
\* output directory given: iterdir() raises FileNotFoundError for an input
\* directory that does not exist, main prints it and exits with the code of
\* handle_exception
optimize_directory_start ==
    /\ tool = "optimize_images" /\ pc = "start"
    /\ IF ~disk.input_exists
       THEN /\ disk' = Mkdir(disk)
            /\ notices' = notices \cup {"Failed: Batch optimization", "Unexpected error"}
            /\ pc' = "crashed"
            /\ exit_status' = 1
            /\ UNCHANGED <<geomVars, tool, params, folder, media_files, pos, success_count,
                           fail_count, attempted, errors, open_handles, report>>
       ELSE \E image_files \in Orders({f \in folder : Lower(f.ext) \in IMAGE_EXTENSIONS}) :
                Discovered(image_files, Mkdir(disk),
                           IF image_files = <<>> THEN {"No images found"} ELSE {})

optimize_directory_file ==
    /\ InLoop("optimize_images")
    /\ Attempted(optimize_image(media_files[pos + 1]), TRUE)

optimize_directory_end ==
    /\ AtEnd("optimize_images")
    /\ Summary(IF fail_count = 0 THEN <<success_count>> ELSE <<success_count, fail_count>>)
    /\ UNCHANGED disk

\* image_to_video.main on a folder: the output folder is made first
image_to_video_start ==
    /\ tool = "image_to_video" /\ pc = "start"
    /\ IF ~disk.input_exists
       THEN Discovered(<<>>, Mkdir(disk), {"folder_created_info", "does not exist"})
       ELSE LET images == Sorted(AsList({f \in folder : Lower(f.ext) \in IMAGE_EXTENSIONS}))
            IN  Discovered(images, Mkdir(disk),
                           {"folder_created_info"}
                           \cup (IF images = <<>> THEN {"No images found"} ELSE {}))

image_to_video_file ==
    /\ InLoop("image_to_video")
    /\ Attempted(image_to_video(media_files[pos + 1]), TRUE)

image_to_video_end ==
    /\ AtEnd("image_to_video")
    /\ Summary(IF fail_count = 0 THEN <<success_count>> ELSE <<success_count, fail_count>>)
    /\ UNCHANGED disk

Next ==
    \/ batch_process_start
    \/ batch_process_file
    \/ batch_process_end
    \/ batch_adjust_durations_start
    \/ batch_adjust_durations_file
    \/ batch_adjust_durations_end
    \/ create_video_mapping_start
    \/ create_video_mapping_file
    \/ create_video_mapping_end
    \/ optimize_directory_start
    \/ optimize_directory_file
    \/ optimize_directory_end
    \/ image_to_video_start
    \/ image_to_video_file
    \/ image_to_video_end

Spec == Init /\ [][Next]_vars

(***************************************************************************)
(* Properties of the batch runs                                            *)
(***************************************************************************)
Terminated == pc \in {"done", "crashed"}

\* the number of per-file calls that returned True
Succeeded(calls) == Cardinality({i \in 1 .. Len(calls) : calls[i].outcome = "true"})

\* some per-file call did not succeed
ItemFailed == \E i \in 1 .. Len(attempted) : attempted[i].outcome # "true"

IsImage(file) == Lower(file.ext) \in IMAGE_EXTENSIONS

\* C6: in batch_process a file that fails (image that cannot be read, video
\* that cannot be opened, exception inside the transform) is reported and
\* the loop goes on: the files attempted are the files of get_media_files,
\* each once, in sorted order, none is left out when the run ends, no
\* exception ends the run, and success_count is the number of calls that
\* returned True.
C6_BatchProcessContinues ==
    tool = "change_aspect_ratio" =>
        /\ pc # "crashed"
        /\ pc # "start" => media_files = get_media_files(folder, params.media_type)
        /\ \A i, j \in 1 .. Len(media_files) :
               i < j => media_files[i].name < media_files[j].name
        /\ Len(attempted) = pos
        /\ pos <= Len(media_files)
        /\ \A i \in 1 .. pos :
               /\ attempted[i].name = media_files[i].name
               /\ attempted[i].outcome \in {"true", "false"}
               /\ attempted[i].outcome = "false" => attempted[i].name \in errors
        /\ success_count = Succeeded(attempted)
        /\ pc = "done" => pos = Len(media_files)

\* C6 witness: a finished run over two valid images and one corrupt image
\* that is not the last file; success_count is 2 and the file after the
\* corrupt one was processed.
C6_Witness ==
    /\ tool = "change_aspect_ratio"
    /\ pc = "done"
    /\ Len(media_files) = 3
    /\ \A i \in 1 .. 3 : IsImage(media_files[i])
    /\ \E i \in 1 .. 2 :
           /\ ~media_files[i].content.ok
           /\ attempted[i].outcome = "false"
           /\ attempted[i + 1].outcome = "true"
    /\ success_count = 2
    /\ report = <<2>>

\* C6, the other failures: a finished run in which a video that could not be
\* opened and an image whose transform raised are both followed by a file
\* that succeeded.
C6_WitnessOtherFailures ==
    /\ tool = "change_aspect_ratio"
    /\ pc = "done"
    /\ Len(media_files) = 3
    /\ ~IsImage(media_files[1]) /\ ~media_files[1].content.ok
    /\ IsImage(media_files[2]) /\ media_files[2].content.ok
    /\ attempted[1].outcome = "false"
    /\ attempted[2].outcome = "false"
    /\ attempted[3].outcome = "true"
    /\ success_count = 1

\* C7: batch_adjust_durations calls create_video_with_duration for every
\* video of get_video_files whatever happens to an earlier one: no exception
\* raised while processing a video leaves the batch run.
C7_NoExceptionLeavesDurationBatch ==
    tool = "change_video_duration" =>
        /\ pc # "crashed"
        /\ Terminated => Len(attempted) = Len(media_files)

\* C8: on every exit path of process_video and create_video_with_duration
\* every VideoCapture and VideoWriter that was opened has been released, so
\* no handle is open when the next file of the batch starts.
C8_HandlesReleasedOnEveryExit ==
    tool \in {"change_aspect_ratio", "change_video_duration"} => open_handles = {}

\* C9: every batch run of batch_process, batch_adjust_durations and
\* optimize_directory that found files ends by reporting the number of items
\* that succeeded and the number that failed, the two summing to the number
\* of files discovered.
C9_ReportsSuccessAndFailure ==
    ( /\ tool \in {"change_aspect_ratio", "change_video_duration", "optimize_images"}
      /\ pc = "done"
      /\ media_files # <<>> ) =>
        /\ Len(report) = 2
        /\ report[1] + report[2] = Len(media_files)

\* C10: a run of image_to_video, optimize_images or change_aspect_ratio in
\* which some item failed terminates with a non-zero exit status, and a run
\* in which none failed terminates with exit status zero.
C10_ExitStatusReflectsFailures ==
    (tool \in {"image_to_video", "optimize_images", "change_aspect_ratio"} /\ Terminated) =>
        (exit_status # 0 <=> ItemFailed)

\* C10, the half that holds: a run on an existing input folder without a
\* failed item exits with zero.
C10_ZeroWhenNothingFailed ==
    (tool \in {"image_to_video", "optimize_images", "change_aspect_ratio"}
        /\ disk.input_exists /\ Terminated /\ ~ItemFailed) => exit_status = 0

(***************************************************************************)
(* The prompts of change_aspect_ratio.main.  What the user types is a      *)
(* string; a prompt function takes the strings it reads and yields         *)
(* [value, warned]: the value returned and whether a warning was printed.  *)
(***************************************************************************)
ASPECT_RATIO_16_9 == <<1920, 1080>>
ASPECT_RATIO_4_3 == <<1024, 768>>
ASPECT_RATIO_1_1 == <<1080, 1080>>
ASPECT_RATIO_9_16 == <<1080, 1920>>
ASPECT_RATIO_21_9 == <<2560, 1080>>

LETTERBOX_COLOR_BLACK == <<0, 0, 0>>
LETTERBOX_COLOR_WHITE == <<255, 255, 255>>
LETTERBOX_COLOR_GRAY == <<128, 128, 128>>

COLOR_MIN_VALUE == 0
COLOR_MAX_VALUE == 255

\* str.strip() on the lines of the model
strip(line) ==
    CASE line = " 2 " -> "2"
      [] line = " " -> ""
      [] OTHER -> line

\* the decimal literals among the lines of the model, with their values
IntLiterals ==
    [lit \in {"0", "-5", "128", "300", "1", "2", "3", "4", "5", "6", "7", "8", "9"} |->
        CASE lit = "0" -> 0
          [] lit = "-5" -> 0 - 5
          [] lit = "128" -> 128
          [] lit = "300" -> 300
          [] lit = "1" -> 1
          [] lit = "2" -> 2
          [] lit = "3" -> 3
          [] lit = "4" -> 4
          [] lit = "5" -> 5
          [] lit = "6" -> 6
          [] lit = "7" -> 7
          [] lit = "8" -> 8
          [] lit = "9" -> 9]

\* int(text): ValueError for a text that is not an integer literal
int(text) ==
    IF text \in DOMAIN IntLiterals
    THEN [raised |-> FALSE, value |-> IntLiterals[text]]
    ELSE [raised |-> TRUE, value |-> 0]

Prompted(v, w) == [value |-> v, warned |-> w]

\* change_aspect_ratio.get_aspect_ratio_input reading choice, then the
\* width and the height for choice 6
get_aspect_ratio_input(line, width_line, height_line) ==
    LET choice == strip(line)
        width == int(strip(width_line))
        height == int(strip(height_line))
    IN  CASE choice = "1" -> Prompted(ASPECT_RATIO_16_9, FALSE)
          [] choice = "2" -> Prompted(ASPECT_RATIO_4_3, FALSE)
          [] choice = "3" -> Prompted(ASPECT_RATIO_1_1, FALSE)
          [] choice = "4" -> Prompted(ASPECT_RATIO_9_16, FALSE)
          [] choice = "5" -> Prompted(ASPECT_RATIO_21_9, FALSE)
          [] choice = "6" ->
                IF width.raised \/ height.raised
                THEN Prompted(ASPECT_RATIO_16_9, TRUE)            \* except ValueError
                ELSE Prompted(<<width.value, height.value>>, FALSE)
          [] OTHER -> Prompted(ASPECT_RATIO_16_9, TRUE)

\* change_aspect_ratio.get_mode_input
get_mode_input(line) ==
    IF strip(line) = "2" THEN Prompted(CROP, FALSE) ELSE Prompted(LETTERBOX, FALSE)

\* change_aspect_ratio.get_anchor_input
get_anchor_input(line) ==
    LET choice == strip(line)
    IN  CASE choice = "2" -> Prompted("upper_left", FALSE)
          [] choice = "3" -> Prompted("upper_center", FALSE)
          [] choice = "4" -> Prompted("upper_right", FALSE)
          [] choice = "5" -> Prompted("center_left", FALSE)
          [] choice = "6" -> Prompted("center_right", FALSE)
          [] choice = "7" -> Prompted("lower_left", FALSE)
          [] choice = "8" -> Prompted("lower_center", FALSE)
          [] choice = "9" -> Prompted("lower_right", FALSE)
          [] OTHER -> Prompted(CENTER, FALSE)

\* the clamp without its lower bound
clamp_no_min(v) == Min(COLOR_MAX_VALUE, v)

\* max(COLOR_MIN_VALUE, min(COLOR_MAX_VALUE, v))
clamp(v) == Max(COLOR_MIN_VALUE, Min(COLOR_MAX_VALUE, v))

\* change_aspect_ratio.get_letterbox_color_input reading choice, then the
\* red, green and blue values for choice 4
get_letterbox_color_input(line, r_line, g_line, b_line) ==
    LET choice == strip(line)
        r == int(strip(r_line))
        g == int(strip(g_line))
        b == int(strip(b_line))
    IN  CASE choice = "2" -> Prompted(LETTERBOX_COLOR_WHITE, FALSE)
          [] choice = "3" -> Prompted(LETTERBOX_COLOR_GRAY, FALSE)
          [] choice = "4" ->
                IF r.raised \/ g.raised \/ b.raised
                THEN Prompted(LETTERBOX_COLOR_BLACK, TRUE)        \* except ValueError
                ELSE Prompted(<<clamp(b.value), clamp(g.value), clamp(r.value)>>, FALSE)
          [] OTHER -> Prompted(LETTERBOX_COLOR_BLACK, FALSE)

\* the media type of main
get_media_type(line) ==
    LET type_choice == strip(line)
    IN  CASE type_choice = "2" -> Prompted("videos", FALSE)
          [] type_choice = "3" -> Prompted("both", FALSE)
          [] OTHER -> Prompted("images", FALSE)

(***************************************************************************)
(* change_aspect_ratio.main, prompt by prompt: call holds the locals of    *)
(* main assigned so far, ret the last prompt function that returned with   *)
(* the lines it read, and gpc the prompt main is at; at "batch_process"    *)
(* main has called batch_process with the locals as arguments.             *)
(***************************************************************************)
TypeLines == {"1", "2", "3", "invalid"}
AspectLines == {"1", "2", "3", "4", "5", "6", "7", "", "invalid"}
ModeLines == {"1", "2", " 2 ", "invalid"}
AnchorLines == {"1", "2", "3", "4", "5", "6", "7", "8", "9", "", "invalid"}
ColorLines == {"1", "2", "3", "4", "", "invalid"}
NumberLines == {"0", "-5", "128", "300", "abc", "1.5"}

\* the lines a prompt function reads after a choice: those of the custom
\* option, none (here "") otherwise
CustomLines(line, custom) == IF strip(line) = custom THEN NumberLines ELSE {""}

Returned(fn, lines, result) ==
    [fn |-> fn, lines |-> lines, value |-> result.value, warned |-> result.warned]

InitPrompt ==
    /\ BatchIdle
    /\ call = [fn |-> "main"]
    /\ ret = <<>>
    /\ gpc = "type"

AskMediaType ==
    /\ gpc = "type"
    /\ \E line \in TypeLines :
          LET result == get_media_type(line)
          IN  /\ ret' = Returned("get_media_type", <<line>>, result)
              /\ call' = call @@ [media_type |-> result.value]
    /\ gpc' = "aspect"
    /\ UNCHANGED batchVars

AskAspectRatio ==
    /\ gpc = "aspect"
    /\ \E line \in AspectLines :
          \E width_line, height_line \in CustomLines(line, "6") :
              LET result == get_aspect_ratio_input(line, width_line, height_line)
              IN  /\ ret' = Returned("get_aspect_ratio_input",
                                     <<line, width_line, height_line>>, result)
                  /\ call' = call @@ [target_width |-> result.value[1],
                                      target_height |-> result.value[2]]
    /\ gpc' = "mode"
    /\ UNCHANGED batchVars

AskMode ==
    /\ gpc = "mode"
    /\ \E line \in ModeLines :
          LET result == get_mode_input(line)
          IN  /\ ret' = Returned("get_mode_input", <<line>>, result)
              /\ call' = call @@ [mode |-> result.value]
              /\ gpc' = IF result.value = CROP THEN "anchor" ELSE "color"
    /\ UNCHANGED batchVars

AskAnchor ==
    /\ gpc = "anchor"
    /\ \E line \in AnchorLines :
          LET result == get_anchor_input(line)
          IN  /\ ret' = Returned("get_anchor_input", <<line>>, result)
              /\ call' = call @@ [anchor |-> result.value,
                                  letterbox_color |-> LETTERBOX_COLOR_BLACK]
    /\ gpc' = "process"
    /\ UNCHANGED batchVars

AskLetterboxColor ==
    /\ gpc = "color"
    /\ \E line \in ColorLines :
          \E r_line, g_line, b_line \in CustomLines(line, "4") :
              LET result == get_letterbox_color_input(line, r_line, g_line, b_line)
              IN  /\ ret' = Returned("get_letterbox_color_input",
                                     <<line, r_line, g_line, b_line>>, result)
                  /\ call' = call @@ [anchor |-> CENTER, letterbox_color |-> result.value]
    /\ gpc' = "process"
    /\ UNCHANGED batchVars

CallBatchProcess ==
    /\ gpc = "process"
    /\ gpc' = "batch_process"
    /\ UNCHANGED <<call, ret, batchVars>>

NextPrompt ==
    \/ AskMediaType
    \/ AskAspectRatio
    \/ AskMode
    \/ AskAnchor
    \/ AskLetterboxColor
    \/ CallBatchProcess

SpecPrompt == InitPrompt /\ [][NextPrompt]_vars

(***************************************************************************)
(* Properties of the prompts (checked under SpecPrompt)                    *)
(***************************************************************************)
PromptReturned(fn) == ret # <<>> /\ ret.fn = fn

\* C11: main never calls batch_process, and so the fit transform, with a
\* zero or negative target width or height: a custom width or height that
\* is not a positive integer is replaced by the default before the call.
C11_TargetPositiveAtBatchProcess ==
    gpc = "batch_process" => call.target_width >= 1 /\ call.target_height >= 1

\* C11, what the code does reject: a custom width or height that is no
\* integer literal gives the default 1920x1080 with a warning.
C11_NonIntegerReplacedByDefault ==
    ( /\ PromptReturned("get_aspect_ratio_input")
      /\ ret.lines[1] = "6"
      /\ (int(ret.lines[2]).raised \/ int(ret.lines[3]).raised) ) =>
        ret.value = <<1920, 1080>> /\ ret.warned

\* the choices each menu lists
ListedChoices(fn) ==
    CASE fn = "get_aspect_ratio_input" -> {"1", "2", "3", "4", "5", "6"}
      [] fn = "get_mode_input" -> {"1", "2"}
      [] fn = "get_anchor_input" -> {"1", "2", "3", "4", "5", "6", "7", "8", "9"}
      [] fn = "get_letterbox_color_input" -> {"1", "2", "3", "4"}
      [] OTHER -> {}

\* the documented default of each menu
DocumentedDefault(fn) ==
    CASE fn = "get_aspect_ratio_input" -> <<1920, 1080>>
      [] fn = "get_mode_input" -> "letterbox"
      [] fn = "get_anchor_input" -> "center"
      [] fn = "get_letterbox_color_input" -> <<0, 0, 0>>

MenuPrompts ==
    {"get_aspect_ratio_input", "get_mode_input", "get_anchor_input",
     "get_letterbox_color_input"}

\* a menu prompt has returned after reading a choice that is not listed
UnlistedChoice ==
    /\ ret # <<>>
    /\ ret.fn \in MenuPrompts
    /\ ret.lines[1] = "invalid"

\* C12: every menu prompt (aspect ratio, mode, crop anchor, letterbox
\* colour) given an input that is not one of its listed choices returns its
\* documented default and prints a warning.
C12_UnlistedChoiceDefaultsWithWarning ==
    UnlistedChoice => ret.value = DocumentedDefault(ret.fn) /\ ret.warned

\* C12, the half that holds: the value returned for an unlisted choice is
\* the documented default.
C12_UnlistedChoiceDefaults ==
    UnlistedChoice => ret.value = DocumentedDefault(ret.fn)

(***************************************************************************)
(* Properties of runs that find no input (checked under Spec)              *)
(***************************************************************************)
\* a run of one of the three functions has returned having found no file
NoInputFound ==
    /\ tool \in {"change_aspect_ratio", "change_video_duration", "create_video_mapping"}
    /\ pc = "done"
    /\ media_files = <<>>

NoInputNotices ==
    {"folder_not_exist_error", "no_media_files_warning", "no_video_files_warning"}

\* C13: with no matching input file (input folder missing, or no allow-listed
\* file in it) batch_process, batch_adjust_durations and create_video_mapping
\* report it and return without writing: no file is processed, no output
\* file is produced and the output folder is not created.
C13_NoInputNothingWrittenNorCreated ==
    NoInputFound =>
        /\ notices \cap NoInputNotices # {}
        /\ attempted = <<>>
        /\ disk.written = {}
        /\ ~disk.mapping
        /\ ~disk.output_exists

\* C13, the part that holds: the absence is reported, no file is processed
\* and no output file is produced.
C13_NoInputNothingWritten ==
    NoInputFound =>
        /\ notices \cap NoInputNotices # {}
        /\ attempted = <<>>
        /\ disk.written = {}
        /\ ~disk.mapping

(***************************************************************************)
(* More properties of resize_with_aspect_ratio (checked under SpecFit)     *)
(***************************************************************************)
\* the source is wider than the target: original_aspect > target_aspect
SourceWider ==
    call.original_width * call.target_height > call.target_width * call.original_height

\* a LETTERBOX call that reached the computation of the paste offsets
LetterboxPlaced ==
    /\ FitReturned
    /\ call.mode = LETTERBOX
    /\ "x_offset" \in DOMAIN ret.locals

\* the rows, and the columns, of the canvas that hold a pixel of the colour
BarRows == {p[1] : p \in {q \in DOMAIN ret.image.px : ret.image.px[q].kind = "fill"}}
BarCols == {p[2] : p \in {q \in DOMAIN ret.image.px : ret.image.px[q].kind = "fill"}}

\* C14: in LETTERBOX mode bars appear on one axis only: for a source whose
\* aspect ratio is greater than the target's the resized width is the target
\* width and the x offset is 0 (bars only above and below: every row with a
\* bar pixel is outside the content rows); otherwise the resized height is
\* the target height and the y offset is 0 (bars only left and right).
C14_LetterboxBarsOnOneAxis ==
    LetterboxPlaced =>
        IF SourceWider
        THEN /\ ret.locals.new_width = call.target_width
             /\ ret.locals.x_offset = 0
             /\ ~ret.raised =>
                   \A r \in BarRows :
                       \/ r < ret.locals.y_offset
                       \/ r >= ret.locals.y_offset + ret.locals.new_height
        ELSE /\ ret.locals.new_height = call.target_height
             /\ ret.locals.y_offset = 0
             /\ ~ret.raised =>
                   \A c \in BarCols :
                       \/ c < ret.locals.x_offset
                       \/ c >= ret.locals.x_offset + ret.locals.new_width

\* C14 witness: a wider source pasted between a top and a bottom bar, its
\* rows reaching both sides of the canvas (4x2 into 4x4 is one such call).
C14_Witness ==
    /\ LetterboxPlaced
    /\ ~ret.raised
    /\ SourceWider
    /\ ret.locals.x_offset = 0
    /\ ret.locals.y_offset >= 1
    /\ BarRows # {}
    /\ ret.image.px[<<ret.locals.y_offset, 0>>].kind = "resampled"
    /\ ret.image.px[<<ret.locals.y_offset, call.target_width - 1>>].kind = "resampled"
    /\ ret.image.px[<<0, 0>>] = [kind |-> "fill", val |-> call.letterbox_color]

\* C14 witness of the other branch: a taller source between a left and a
\* right bar.
C14_WitnessTaller ==
    /\ LetterboxPlaced
    /\ ~ret.raised
    /\ ~SourceWider
    /\ ret.locals.y_offset = 0
    /\ ret.locals.x_offset >= 1
    /\ BarCols # {}
    /\ ret.image.px[<<0, ret.locals.x_offset>>].kind = "resampled"
    /\ ret.image.px[<<call.target_height - 1, ret.locals.x_offset>>].kind = "resampled"

\* a call whose target size is the source size
SameSize ==
    /\ FitReturned
    /\ call.target_width = call.original_width
    /\ call.target_height = call.original_height

\* C15: with the target size equal to the source size both modes are the
\* identity in geometry: LETTERBOX resizes to exactly the source size and
\* pastes at offset (0, 0) with no border, CROP takes the whole source as
\* crop window at offset (0, 0), for every anchor.
C15_SameSizeIsIdentity ==
    SameSize =>
        /\ ~ret.raised
        /\ call.mode = LETTERBOX =>
              /\ ret.locals.new_width = call.original_width
              /\ ret.locals.new_height = call.original_height
              /\ ret.locals.x_offset = 0
              /\ ret.locals.y_offset = 0
              /\ BarRows = {}
        /\ call.mode = CROP =>
              /\ ret.locals.crop_width = call.original_width
              /\ ret.locals.crop_height = call.original_height
              /\ ret.locals.x = 0
              /\ ret.locals.y = 0

\* C15 at the sizes where the aspect ratio and its product or quotient with
\* the other side are exact in binary64 (here every size up to MaxDim).
C15_SameSizeIsIdentityWhenExact ==
    ( SameSize /\ call.original_width <= MaxDim /\ call.original_height <= MaxDim ) =>
        /\ ~ret.raised
        /\ call.mode = LETTERBOX =>
              /\ ret.locals.new_width = call.original_width
              /\ ret.locals.new_height = call.original_height
              /\ ret.locals.x_offset = 0
              /\ ret.locals.y_offset = 0
              /\ BarRows = {}
        /\ call.mode = CROP =>
              /\ ret.locals.crop_width = call.original_width
              /\ ret.locals.crop_height = call.original_height
              /\ ret.locals.x = 0
              /\ ret.locals.y = 0

(***************************************************************************)
(* More properties of calculate_crop_position (checked under SpecCrop)     *)
(***************************************************************************)
\* C16: calculate_crop_position never raises: for an anchor that is none of
\* the nine enumerated anchors it returns what center gives for the same
\* sizes, max(0, (original - target) // 2) on both axes.
C16_UnknownAnchorIsCenter ==
    ( CropReturned /\ call.anchor \notin CropAnchor ) =>
        /\ ret = <<Max(0, (call.original_width - call.target_width) \div 2),
                   Max(0, (call.original_height - call.target_height) \div 2)>>
        /\ ret = calculate_crop_position(call.original_width, call.original_height,
                                         call.target_width, call.target_height, CENTER)

\* C16 witness: an unknown anchor on a source larger than the target on
\* both axes returns the centred position, which is not the origin.
C16_Witness ==
    /\ CropReturned
    /\ call.anchor = "not_an_anchor"
    /\ call.original_width >= call.target_width + 2
    /\ call.original_height >= call.target_height + 2
    /\ ret[1] >= 1 /\ ret[2] >= 1
    /\ ret[1] < call.original_width - call.target_width

(***************************************************************************)
(* change_video_duration.py: apply_fade                                    *)
(*                                                                         *)
(* A frame is the sequence of its channel values (uint8); alpha is the     *)
(* float num / den.                                                        *)
(***************************************************************************)
Alpha(num, den) == [kind |-> "alpha", num |-> num, den |-> den]

\* no alpha: the frame is written as it is, or the division by zero raised
NoAlpha(kind) == [kind |-> kind, num |-> 0, den |-> 1]

\* frame * alpha for one channel value, then truncated toward zero as the
\* conversion to an integer type does
ProductTrunc(v, alpha) ==
    IF v = 0 \/ alpha.num = 0 THEN 0
    ELSE IF alpha.num > 0 THEN IntOfMul(v, alpha.num, alpha.den)
    ELSE 0 - IntOfMul(v, 0 - alpha.num, alpha.den)

\* .astype(np.uint8) of a float whose truncation is x: x when it is a uint8;
\* otherwise the conversion is undefined in C and a build wraps modulo 256
\* or saturates
astype_uint8(x) ==
    IF x \in 0 .. 255 THEN {x} ELSE {x % 256, IF x < 0 THEN 0 ELSE 255}

\* the frames (frame * alpha).astype(np.uint8) can be
RECURSIVE apply_fade(_, _)
apply_fade(frame, alpha) ==
    IF frame = <<>> THEN {<<>>}
    ELSE {<<c>> \o rest : c \in astype_uint8(ProductTrunc(Head(frame), alpha)),
                          rest \in apply_fade(Tail(frame), alpha)}

(***************************************************************************)
(* create_video_with_duration frame by frame.  call holds the arguments    *)
(* and what the capture delivers (opened, fps, the frames, frame i of the  *)
(* source having the one channel value FramePixel(i)), ret the locals of   *)
(* the function, gpc its position.  target_duration and fade_duration are  *)
(* floats: a number of half seconds, inf or nan.                           *)
(***************************************************************************)
\* target durations in half seconds
DurationHalves == (0 - 2) .. 6

TargetDurations ==
    {[kind |-> "finite", halves |-> n] : n \in DurationHalves}
    \cup {[kind |-> "inf", halves |-> 0], [kind |-> "nan", halves |-> 0]}

\* frames per second reported by the capture
FpsValues == {1, 2, 3}

\* int(x) for the float x = n / 2: truncation toward zero
IntOfHalves(n) == IF n >= 0 THEN n \div 2 ELSE 0 - ((0 - n) \div 2)

\* fade durations in half seconds, and inf
FadeDurations ==
    {[kind |-> "finite", halves |-> n] : n \in (0 - 1) .. 4}
    \cup {[kind |-> "inf", halves |-> 0]}

\* the channel value of source frame i
FramePixel(i) == 60 * i

\* mutant: the fade out is tested before the fade in
FadeAlpha_out_first(frames_written, target_frames, fade_frames) ==
    IF frames_written >= target_frames - fade_frames
    THEN IF fade_frames = 0 THEN NoAlpha("ZeroDivisionError")
         ELSE Alpha(target_frames - frames_written, fade_frames)
    ELSE IF frames_written < fade_frames
    THEN IF fade_frames = 0 THEN NoAlpha("ZeroDivisionError")
         ELSE Alpha(frames_written, fade_frames)
    ELSE NoAlpha("none")

\* the alpha of the if/elif under apply_fades: "none" when neither branch
\* is taken, "ZeroDivisionError" when the division raises
FadeAlpha(frames_written, target_frames, fade_frames) ==
    IF frames_written < fade_frames
    THEN IF fade_frames = 0 THEN NoAlpha("ZeroDivisionError")
         ELSE Alpha(frames_written, fade_frames)
    ELSE IF frames_written >= target_frames - fade_frames
    THEN IF fade_frames = 0 THEN NoAlpha("ZeroDivisionError")
         ELSE Alpha(target_frames - frames_written, fade_frames)
    ELSE NoAlpha("none")

InitDuration ==
    /\ BatchIdle
    /\ gpc = "call"
    /\ ret = <<>>
    /\ \E opened \in BOOLEAN, fps \in FpsValues, n \in 0 .. MaxFrames, d \in TargetDurations,
          apply_fades \in BOOLEAN, f \in FadeDurations :
          /\ ~apply_fades => f = [kind |-> "finite", halves |-> 0]
          /\ call = [fn |-> "create_video_with_duration", opened |-> opened, fps |-> fps,
                     frames |-> [i \in 1 .. n |-> <<FramePixel(i)>>], target_duration |-> d,
                     fade_duration |-> f, apply_fades |-> apply_fades]

\* the locals of create_video_with_duration
DurationLocals(value, target_frames, fade_frames, open) ==
    [value |-> value, target_frames |-> target_frames, fade_frames |-> fade_frames,
     frames_written |-> 0, out |-> <<>>, alphas |-> <<>>, open |-> open]

\* from the entry to the first test of the write loop
OpenAndReadFrames ==
    /\ gpc = "call"
    /\ call.fn = "create_video_with_duration"
    /\ IF ~call.opened
       THEN /\ gpc' = "returned"                                  \* not cap.isOpened()
            /\ ret' = DurationLocals("False", 0, 0, {})
       ELSE IF call.target_duration.kind # "finite"
       THEN /\ gpc' = "raised"                                    \* int(inf), int(nan)
            /\ ret' = DurationLocals("raise", 0, 0, {"cap"})
       ELSE IF call.apply_fades /\ call.fade_duration.kind # "finite"
       THEN /\ gpc' = "raised"                                    \* int(inf)
            /\ ret' = DurationLocals("raise", 0, 0, {"cap"})
       ELSE LET target_frames == IntOfHalves(call.target_duration.halves * call.fps)
                fade_frames == IF call.apply_fades
                               THEN IntOfHalves(call.fade_duration.halves * call.fps)
                               ELSE 0
            IN  IF Len(call.frames) = 0
                THEN /\ gpc' = "returned"                         \* no frames: cap released
                     /\ ret' = DurationLocals("False", target_frames, fade_frames, {"out"})
                ELSE /\ gpc' = "write"
                     /\ ret' = DurationLocals("none", target_frames, fade_frames, {"out"})
    /\ UNCHANGED <<call, batchVars>>

\* one turn of while frames_written < target_frames
WriteFrame ==
    /\ gpc = "write"
    /\ ret.frames_written < ret.target_frames
    /\ LET frame_idx == ret.frames_written % Len(call.frames)
           frame == call.frames[frame_idx + 1]
           alpha == IF call.apply_fades
                    THEN FadeAlpha(ret.frames_written, ret.target_frames, ret.fade_frames)
                    ELSE NoAlpha("none")
       IN  IF alpha.kind = "ZeroDivisionError"
           THEN /\ ret' = [ret EXCEPT !.value = "raise"]
                /\ gpc' = "raised"
           ELSE /\ \E written \in (IF alpha.kind = "none" THEN {frame} ELSE apply_fade(frame, alpha)) :
                      ret' = [ret EXCEPT !.out = Append(@, written),
                                         !.alphas = Append(@, alpha),
                                         !.frames_written = @ + 1]
                /\ gpc' = gpc
    /\ UNCHANGED <<call, batchVars>>

\* the loop is left: out.release() and return True
FinishWriting ==
    /\ gpc = "write"
    /\ ~(ret.frames_written < ret.target_frames)
    /\ ret' = [ret EXCEPT !.value = "True", !.open = {}]
    /\ gpc' = "returned"
    /\ UNCHANGED <<call, batchVars>>

NextDuration ==
    \/ OpenAndReadFrames
    \/ WriteFrame
    \/ FinishWriting

SpecDuration == InitDuration /\ [][NextDuration]_vars

\* a call with fades disabled on a video that opened and delivered at least
\* one frame has ended
DurationCallEnded ==
    /\ call # <<>>
    /\ call.fn = "create_video_with_duration"
    /\ gpc \in {"returned", "raised"}
    /\ call.opened
    /\ Len(call.frames) >= 1
    /\ ~call.apply_fades

\* output frame k is a copy of source frame k mod N
LoopedCopy ==
    \A k \in 0 .. Len(ret.out) - 1 : ret.out[k + 1] = call.frames[(k % Len(call.frames)) + 1]

\* C17: for an input with N >= 1 readable frames create_video_with_duration
\* terminates having written exactly T = floor(target_duration * fps)
\* frames, and with fades disabled output frame k (0 <= k < T) is a copy of
\* source frame k mod N (trimmed when T <= N, looped when T > N).
C17_WritesFloorFramesLooped ==
    DurationCallEnded =>
        /\ gpc = "returned"
        /\ call.target_duration.kind = "finite"
        /\ Len(ret.out) = (call.target_duration.halves * call.fps) \div 2
        /\ LoopedCopy

\* C17 for the durations it can hold for: with a finite target_duration >= 0
\* the call returns True having written floor(target_duration * fps) frames,
\* frame k a copy of source frame k mod N, and both handles released.
C17_WritesFloorFramesLoopedWhenNonNegative ==
    ( /\ DurationCallEnded
      /\ call.target_duration.kind = "finite"
      /\ call.target_duration.halves >= 0 ) =>
        /\ gpc = "returned"
        /\ ret.value = "True"
        /\ Len(ret.out) = (call.target_duration.halves * call.fps) \div 2
        /\ LoopedCopy
        /\ ret.open = {}

\* a call that looped: more frames written than the source has, the frame
\* after the last source frame being the first one again
C17_LoopedReached ==
    /\ DurationCallEnded
    /\ Len(call.frames) = 2
    /\ ret.out = <<<<60>>, <<120>>, <<60>>, <<120>>, <<60>>>>

(***************************************************************************)
(* Properties of get_letterbox_color_input (checked under SpecPrompt)      *)
(***************************************************************************)
\* v brought into 0 .. 255
Into255(v) == IF v < 0 THEN 0 ELSE IF v > 255 THEN 255 ELSE v

\* the custom option was taken: ret.lines holds the choice, then the lines
\* entered for R, G and B
CustomColorReturned ==
    /\ PromptReturned("get_letterbox_color_input")
    /\ strip(ret.lines[1]) = "4"

AllIntegers(lines) == \A i \in 2 .. 4 : ~int(strip(lines[i])).raised

\* C18: get_letterbox_color_input with the custom option returns, for any
\* three integers entered as R, G, B, the tuple (B, G, R) with each channel
\* clamped into [0, 255]; a non-integer entry returns black (0, 0, 0) with a
\* warning.
C18_CustomColorIsClampedBGR ==
    CustomColorReturned =>
        IF AllIntegers(ret.lines)
        THEN /\ ret.value = <<Into255(int(strip(ret.lines[4])).value),
                              Into255(int(strip(ret.lines[3])).value),
                              Into255(int(strip(ret.lines[2])).value)>>
             /\ \A i \in 1 .. 3 : ret.value[i] \in 0 .. 255
             /\ ~ret.warned
        ELSE ret.value = <<0, 0, 0>> /\ ret.warned

\* C18 witness: R = 300, G = 128, B = -5 entered at the custom option gives
\* (0, 128, 255): blue first, both ends clamped.
C18_Witness ==
    /\ CustomColorReturned
    /\ ret.lines = <<"4", "300", "128", "-5">>
    /\ ret.value = <<0, 128, 255>>

\* C18 witness of the other case: a non-integer green value gives black with
\* a warning.
C18_WitnessInvalid ==
    /\ CustomColorReturned
    /\ ret.lines = <<"4", "128", "1.5", "300">>
    /\ ret.value = <<0, 0, 0>>
    /\ ret.warned

(***************************************************************************)
(* Calls of get_media_files.  The entries of the folder are files and      *)
(* subdirectories: glob() matches names, whatever they name.               *)
(***************************************************************************)
\* suffixes of the entries of the folder
EntryExts == {".jpg", ".JPG", ".mp4", ".txt"}

EntriesNamed(n) ==
    {[name |-> n, ext |-> e, is_file |-> b, content |-> Undecodable] :
        e \in EntryExts, b \in BOOLEAN}

\* the folders whose entries have names among 1..k, no two the same name
RECURSIVE EntryFolders(_)
EntryFolders(k) ==
    IF k = 0 THEN {{}}
    ELSE EntryFolders(k - 1) \cup {F \cup {f} : F \in EntryFolders(k - 1), f \in EntriesNamed(k)}

MediaTypes == {"images", "videos", "both"}

InitDiscover ==
    /\ BatchIdle
    /\ gpc = "call"
    /\ ret = <<>>
    /\ \E exists \in BOOLEAN, t \in MediaTypes :
          \E dir \in (IF exists THEN EntryFolders(MaxFiles) ELSE {{}}) :
              call = [fn |-> "get_media_files", exists |-> exists, dir |-> dir,
                      media_type |-> t]

CallGetMediaFiles ==
    /\ gpc = "call"
    /\ call.fn = "get_media_files"
    /\ ret' = get_media_files_from(call.exists, call.dir, call.media_type)
    /\ gpc' = "returned"
    /\ UNCHANGED <<call, batchVars>>

NextDiscover == CallGetMediaFiles

SpecDiscover == InitDiscover /\ [][NextDiscover]_vars

DiscoverReturned == gpc = "returned" /\ call.fn = "get_media_files"

\* the allow-list of a media type
AllowList(media_type) ==
    (IF media_type \in {"images", "both"} THEN IMAGE_EXTENSIONS ELSE {})
    \cup (IF media_type \in {"videos", "both"} THEN VIDEO_EXTENSIONS ELSE {})

SortedNoDuplicates(files) ==
    \A i, j \in 1 .. Len(files) : i < j => files[i].name < files[j].name

\* C19: get_media_files returns, in sorted order and without duplicates,
\* only files of the given folder whose extension is in the allow-list of
\* the requested media type; for a folder that does not exist it returns an
\* empty list and reports an error instead of raising.
C19_OnlyAllowListedFilesSorted ==
    DiscoverReturned =>
        /\ ~ret.raised
        /\ SortedNoDuplicates(ret.files)
        /\ \A i \in 1 .. Len(ret.files) :
               /\ ret.files[i] \in call.dir
               /\ ret.files[i].is_file
               /\ ret.files[i].ext \in AllowList(call.media_type)
        /\ ~call.exists => ret.files = <<>> /\ "folder_not_exist_error" \in ret.printed

\* C19 for the entries of the folder, files or not: what is returned is
\* sorted, without duplicates, and is exactly the entries whose suffix is in
\* the allow-list as written (lower case).
C19_AllowListedEntriesSorted ==
    DiscoverReturned =>
        /\ ~ret.raised
        /\ SortedNoDuplicates(ret.files)
        /\ {ret.files[i] : i \in 1 .. Len(ret.files)}
             = {f \in call.dir : f.ext \in AllowList(call.media_type)}
        /\ ~call.exists => ret.files = <<>> /\ "folder_not_exist_error" \in ret.printed

(***************************************************************************)
(* image_to_header.  The JPEG encoder is the library's: call holds the     *)
(* bytes it delivers (jpeg_data) and whether PIL can read the input.  Text *)
(* written to the header file is a sequence of characters; ret holds the   *)
(* comment values, the declaration, the lines of the array written so far, *)
(* the loop variable i and the closing line.                               *)
(***************************************************************************)
DEFAULT_IMAGE_WIDTH == 240
DEFAULT_IMAGE_HEIGHT == 320
DEFAULT_BYTES_PER_LINE == 12

\* the byte b of every jpeg_data of the model at index k (from 0)
ByteSeeds == {0, 200, 255}
ByteSteps == {1, 16, 37}
JpegData(n, seed, step) == [k \in 1 .. n |-> (seed + (k - 1) * step) % 256]

HexDigits == <<"0", "1", "2", "3", "4", "5", "6", "7", "8", "9", "A", "B", "C", "D", "E", "F">>

\* f"0x{b:02X}"
Hex02X(b) == <<"0", "x", HexDigits[(b \div 16) + 1], HexDigits[(b % 16) + 1]>>

\* ", ".join(tokens)
RECURSIVE Join(_)
Join(tokens) ==
    IF tokens = <<>> THEN <<>>
    ELSE IF Len(tokens) = 1 THEN tokens[1]
    ELSE tokens[1] \o <<",", " ">> \o Join(Tail(tokens))

\* mutant: the line that ends exactly at the last byte still gets a comma
HasMore_inclusive(i, jpeg_size) == i + DEFAULT_BYTES_PER_LINE <= jpeg_size

\* i + DEFAULT_BYTES_PER_LINE < jpeg_size
HasMore(i, jpeg_size) == i + DEFAULT_BYTES_PER_LINE < jpeg_size

\* f"  {hex_values},\n" or f"  {hex_values}\n"
ArrayLine(chunk, more) ==
    <<" ", " ">> \o Join([k \in 1 .. Len(chunk) |-> Hex02X(chunk[k])])
    \o (IF more THEN <<",">> ELSE <<>>) \o <<"\n">>

InitHeader ==
    /\ BatchIdle
    /\ gpc = "call"
    /\ ret = <<>>
    /\ \E readable \in BOOLEAN, n \in 1 .. MaxBytes, seed \in ByteSeeds, step \in ByteSteps :
          call = [fn |-> "image_to_header", readable |-> readable,
                  target_width |-> DEFAULT_IMAGE_WIDTH,
                  target_height |-> DEFAULT_IMAGE_HEIGHT,
                  jpeg_data |-> JpegData(n, seed, step)]

\* from Image.open to the array declaration
EncodeAndWriteHeader ==
    /\ gpc = "call"
    /\ call.fn = "image_to_header"
    /\ IF ~call.readable
       THEN /\ gpc' = "raised"                                    \* Image.open raises
            /\ ret' = [comments |-> <<>>, declaration |-> <<>>, array |-> <<>>, i |-> 0,
                       closing |-> <<>>]
       ELSE /\ gpc' = "array"
            /\ ret' = [comments |-> <<call.target_width, call.target_height,
                                      Len(call.jpeg_data)>>,
                       declaration |-> <<"const unsigned char photoData[] PROGMEM = ",
                                         "{", "{", "\n">>,
                       array |-> <<>>, i |-> 0, closing |-> <<>>]
    /\ UNCHANGED <<call, batchVars>>

\* one turn of for i in range(0, jpeg_size, DEFAULT_BYTES_PER_LINE)
WriteArrayLine ==
    /\ gpc = "array"
    /\ ret.i < Len(call.jpeg_data)
    /\ LET jpeg_size == Len(call.jpeg_data)
           chunk == SubSeq(call.jpeg_data, ret.i + 1,
                           Min(ret.i + DEFAULT_BYTES_PER_LINE, jpeg_size))
       IN  ret' = [ret EXCEPT !.array = Append(@, ArrayLine(chunk, HasMore(ret.i, jpeg_size))),
                              !.i = @ + DEFAULT_BYTES_PER_LINE]
    /\ UNCHANGED <<call, gpc, batchVars>>

\* the range is exhausted: f.write("};\n") and the file is closed
CloseHeader ==
    /\ gpc = "array"
    /\ ret.i >= Len(call.jpeg_data)
    /\ ret' = [ret EXCEPT !.closing = <<"}", ";", "\n">>]
    /\ gpc' = "returned"
    /\ UNCHANGED <<call, batchVars>>

NextHeader ==
    \/ EncodeAndWriteHeader
    \/ WriteArrayLine
    \/ CloseHeader

SpecHeader == InitHeader /\ [][NextHeader]_vars

(***************************************************************************)
(* Properties of image_to_header (checked under SpecHeader)                *)
(***************************************************************************)
HeaderWritten == gpc = "returned" /\ call # <<>> /\ call.fn = "image_to_header"

\* the value of an upper-case hexadecimal digit, -1 for any other character
HexValue(c) ==
    CASE c = "0" -> 0 [] c = "1" -> 1 [] c = "2" -> 2 [] c = "3" -> 3
      [] c = "4" -> 4 [] c = "5" -> 5 [] c = "6" -> 6 [] c = "7" -> 7
      [] c = "8" -> 8 [] c = "9" -> 9 [] c = "A" -> 10 [] c = "B" -> 11
      [] c = "C" -> 12 [] c = "D" -> 13 [] c = "E" -> 14 [] c = "F" -> 15
      [] OTHER -> 0 - 1

\* a line ends with a comma before its newline
EndsWithComma(line) == Len(line) >= 2 /\ line[Len(line) - 1] = ","

\* the text of a line between its two leading blanks and its end (the
\* newline, and the comma before it if there is one)
TokenText(line) ==
    SubSeq(line, 3, Len(line) - (IF EndsWithComma(line) THEN 2 ELSE 1))

\* the number of 0xHH tokens of a line, its text being tokens of four
\* characters separated by a comma and a blank
TokenCount(line) == (Len(TokenText(line)) + 2) \div 6

\* the k-th token of a line, k from 0
TokenAt(line, k) == SubSeq(TokenText(line), 6 * k + 1, 6 * k + 4)

\* the line is two blanks, tokens 0xHH separated by ", ", an optional comma
\* and a newline
WellFormedLine(line) ==
    /\ Len(line) >= 7
    /\ line[1] = " " /\ line[2] = " "
    /\ line[Len(line)] = "\n"
    /\ (Len(TokenText(line)) + 2) % 6 = 0
    /\ \A k \in 0 .. TokenCount(line) - 1 :
          LET token == TokenAt(line, k) IN
          /\ token[1] = "0" /\ token[2] = "x"
          /\ HexValue(token[3]) >= 0 /\ HexValue(token[4]) >= 0
          /\ k >= 1 => /\ TokenText(line)[6 * k - 1] = ","
                       /\ TokenText(line)[6 * k] = " "

\* the bytes a line parses to
ParseLine(line) ==
    [k \in 1 .. TokenCount(line) |->
        16 * HexValue(TokenAt(line, k - 1)[3]) + HexValue(TokenAt(line, k - 1)[4])]

\* the bytes the lines parse to, in order
RECURSIVE ParseLines(_)
ParseLines(lines) ==
    IF lines = <<>> THEN <<>> ELSE ParseLine(Head(lines)) \o ParseLines(Tail(lines))

\* C20: image_to_header emits every byte of the encoded JPEG exactly once
\* and in order as a 0xHH token: every line except the last holds exactly 12
\* tokens and ends with a comma, the last line holds 1 to 12 tokens and no
\* trailing comma, so parsing the tokens back yields the original bytes.
C20_HeaderBytesRoundTrip ==
    HeaderWritten =>
        /\ Len(ret.array) >= 1
        /\ \A n \in 1 .. Len(ret.array) : WellFormedLine(ret.array[n])
        /\ \A n \in 1 .. Len(ret.array) - 1 :
               /\ TokenCount(ret.array[n]) = 12
               /\ EndsWithComma(ret.array[n])
        /\ LET last == ret.array[Len(ret.array)]
           IN  /\ TokenCount(last) \in 1 .. 12
               /\ ~EndsWithComma(last)
        /\ ParseLines(ret.array) = call.jpeg_data

\* C20 witness: 24 bytes written as two full lines, the first with a comma,
\* the second (ending exactly at the last byte) without; the first byte 0x00
\* and the twelfth 0x0B are written with two digits.
C20_Witness ==
    /\ HeaderWritten
    /\ Len(call.jpeg_data) = 24
    /\ Len(ret.array) = 2
    /\ EndsWithComma(ret.array[1])
    /\ ~EndsWithComma(ret.array[2])
    /\ TokenAt(ret.array[1], 0) = <<"0", "x", "0", "0">>
    /\ TokenAt(ret.array[1], 11) = <<"0", "x", "0", "B">>
    /\ TokenCount(ret.array[2]) = 12

\* C20 witness of a short last line: 25 bytes end with a line of one token.
C20_WitnessShortLastLine ==
    /\ HeaderWritten
    /\ Len(call.jpeg_data) = 25
    /\ Len(ret.array) = 3
    /\ TokenCount(ret.array[3]) = 1
    /\ ret.array[3] = <<" ", " ", "0", "x", "1", "8", "\n">>
    /\ call.jpeg_data[25] = 24

(***************************************************************************)
(* text_to_image.py: process_text_file                                     *)
(*                                                                         *)
(* A line of the input file is a sequence of one-character strings, a file *)
(* name likewise, so that strip, the sanitising of the text and the        *)
(* [:50] slice are computed on characters.                                 *)
(***************************************************************************)
\* the input file holds at most MaxLines lines
MaxLines == 3

\* str.isalnum, str.strip's whitespace, and the characters kept as they are
Alnum == {"a", "b", "x", "y", "Z", "7"}
Whitespace == {" ", "\t"}
KeptPunctuation == {" ", "_", "-"}

isalnum(c) == c \in Alnum

RECURSIVE lstrip(_)
lstrip(line) ==
    IF line # <<>> /\ Head(line) \in Whitespace THEN lstrip(Tail(line)) ELSE line

RECURSIVE rstrip(_)
rstrip(line) ==
    IF line # <<>> /\ line[Len(line)] \in Whitespace
    THEN rstrip(SubSeq(line, 1, Len(line) - 1))
    ELSE line

\* line.strip()
line_strip(line) == rstrip(lstrip(line))

\* [line.strip() for line in f if line.strip()]
RECURSIVE NonBlankLines(_)
NonBlankLines(raw) ==
    IF raw = <<>> THEN <<>>
    ELSE IF line_strip(Head(raw)) # <<>>
         THEN <<line_strip(Head(raw))>> \o NonBlankLines(Tail(raw))
         ELSE NonBlankLines(Tail(raw))

\* mutant: the blank lines are kept, so that they take an index
AllLines(raw) == [i \in 1 .. Len(raw) |-> line_strip(raw[i])]

\* the lines the loop enumerates
ReadLines(raw) == NonBlankLines(raw)

\* "".join(c if c.isalnum() or c in (' ', '_', '-') else '_' for c in line)
safe_text(line) ==
    [i \in 1 .. Len(line) |->
        IF isalnum(line[i]) \/ line[i] \in KeptPunctuation THEN line[i] ELSE "_"]

max_filename_length == 50

\* text[:n]
Prefix(text, n) == SubSeq(text, 1, Min(Len(text), n))

Digits == <<"0", "1", "2", "3", "4", "5", "6", "7", "8", "9">>

\* str(n) for n >= 0
RECURSIVE Decimal(_)
Decimal(n) ==
    IF n < 10 THEN <<Digits[n + 1]>> ELSE Decimal(n \div 10) \o <<Digits[(n % 10) + 1]>>

\* f"{idx:03d}"
RECURSIVE ZeroPad(_, _)
ZeroPad(digits, width) ==
    IF Len(digits) >= width THEN digits ELSE ZeroPad(<<"0">> \o digits, width)

Format03d(idx) == ZeroPad(Decimal(idx), 3)

\* str.upper on the format names of the model
upper(name) ==
    CASE name = "png"  -> "PNG"
      [] name = "Png"  -> "PNG"
      [] name = "jpeg" -> "JPEG"
      [] name = "Jpeg" -> "JPEG"
      [] name = "jpg"  -> "JPG"
      [] name = "webp" -> "WEBP"
      [] name = "gif"  -> "GIF"
      [] name = "bmp"  -> "BMP"
      [] name = "tiff" -> "TIFF"
      [] name = "xyz"  -> "XYZ"
      [] OTHER -> name

\* constants.IMAGE_FORMAT_EXTENSIONS.get(output_format.upper(), '.png')
IMAGE_FORMAT_EXTENSIONS(format) ==
    CASE format = "JPEG" -> <<".", "j", "p", "g">>
      [] format = "JPG"  -> <<".", "j", "p", "g">>
      [] format = "PNG"  -> <<".", "p", "n", "g">>
      [] format = "WEBP" -> <<".", "w", "e", "b", "p">>
      [] format = "GIF"  -> <<".", "g", "i", "f">>
      [] format = "BMP"  -> <<".", "b", "m", "p">>
      [] format = "TIFF" -> <<".", "t", "i", "f", "f">>
      [] OTHER -> <<".", "p", "n", "g">>

\* f"line_{idx:03d}_{safe_text}{extension}" with safe_text cut to 50
OutputFileName(idx, line, extension) ==
    <<"l", "i", "n", "e", "_">> \o Format03d(idx) \o <<"_">>
        \o Prefix(safe_text(line), max_filename_length) \o extension

\* n copies of c
Repeat(c, n) == [i \in 1 .. n |-> c]

\* the lines an input file is made of: blank ones, padded ones, ones whose
\* characters are replaced, two that agree once sanitised, and two longer
\* than 50 characters that agree on their first 50
RawLines ==
    { <<>>,
      <<" ", "\t">>,
      <<" ", "a", " ", "b", " ">>,
      <<"a", "/", "b">>,
      <<"a", "_", "b">>,
      <<"7", "-", "Z", "!">>,
      Repeat("x", 51),
      Repeat("x", 50) \o <<"y", "y">> }

TextFormats == {"PNG", "jpeg"}

RECURSIVE TextFiles(_)
TextFiles(k) ==
    IF k = 0 THEN {<<>>}
    ELSE TextFiles(k - 1) \cup
         {Append(f, l) : f \in {g \in TextFiles(k - 1) : Len(g) = k - 1}, l \in RawLines}

InitText ==
    /\ BatchIdle
    /\ gpc = "call"
    /\ ret = <<>>
    /\ \E state \in {"missing", "unreadable", "readable"}, raw \in TextFiles(MaxLines),
          output_format \in TextFormats :
          /\ state # "readable" => raw = <<>>
          /\ call = [fn |-> "process_text_file", input |-> state, raw |-> raw,
                     output_format |-> output_format]

\* from the entry to the first turn of the loop
OpenTextFile ==
    /\ gpc = "call"
    /\ call.fn = "process_text_file"
    /\ LET lines == ReadLines(call.raw)
           early(message, folder_made) ==
               /\ gpc' = "returned"
               /\ ret' = [value |-> 0, lines |-> <<>>, idx |-> 0, created_count |-> 0,
                          saved |-> <<>>, failed |-> {}, output_folder |-> folder_made,
                          printed |-> {message}]
       IN  IF call.input = "missing" THEN early("folder_not_exist_error", FALSE)
           ELSE IF call.input = "unreadable" THEN early("Failed to read file", TRUE)
           ELSE IF lines = <<>> THEN early("No text found", TRUE)
           ELSE /\ gpc' = "lines"
                /\ ret' = [value |-> 0, lines |-> lines, idx |-> 0, created_count |-> 0,
                           saved |-> <<>>, failed |-> {}, output_folder |-> TRUE,
                           printed |-> {"batch_started"}]
    /\ UNCHANGED <<call, batchVars>>

\* one turn of for idx, line in enumerate(lines, 1): the image is saved, or
\* img.save raises and the error is printed
SaveLineImage ==
    /\ gpc = "lines"
    /\ ret.idx < Len(ret.lines)
    /\ LET idx == ret.idx + 1
           line == ret.lines[idx]
           extension == IMAGE_FORMAT_EXTENSIONS(upper(call.output_format))
           output_file == OutputFileName(idx, line, extension)
       IN  IF line = <<>>
           THEN ret' = [ret EXCEPT !.idx = idx]                   \* if not line: continue
           ELSE \E saves \in BOOLEAN :
              ret' = [ret EXCEPT
                        !.idx = idx,
                        !.created_count = IF saves THEN @ + 1 ELSE @,
                        !.saved = IF saves THEN Append(@, [idx |-> idx, line |-> line, file |-> output_file]) ELSE @,
                        !.failed = IF saves THEN @ ELSE @ \cup {idx},
                        !.printed = IF saves THEN @ \cup {"file_created"}
                                    ELSE @ \cup {"Failed to save image"}]
    /\ UNCHANGED <<call, gpc, batchVars>>

\* batch_completed(created_count, "images"); return created_count
ReturnCreatedCount ==
    /\ gpc = "lines"
    /\ ret.idx = Len(ret.lines)
    /\ ret' = [ret EXCEPT !.value = ret.created_count,
                          !.printed = @ \cup {"batch_completed"}]
    /\ gpc' = "returned"
    /\ UNCHANGED <<call, batchVars>>

NextText ==
    \/ OpenTextFile
    \/ SaveLineImage
    \/ ReturnCreatedCount

SpecText == InitText /\ [][NextText]_vars

\* a call of process_text_file has returned
TextReturned ==
    /\ call # <<>>
    /\ call.fn = "process_text_file"
    /\ gpc = "returned"

\* the lines of the input with a character that is not whitespace, stripped
RECURSIVE NonBlank(_)
NonBlank(raw) ==
    IF raw = <<>> THEN <<>>
    ELSE LET rest == NonBlank(Tail(raw))
         IN  IF \E i \in 1 .. Len(Head(raw)) : Head(raw)[i] \notin Whitespace
             THEN <<line_strip(Head(raw))>> \o rest
             ELSE rest

\* the text part of a written name: between "line_ddd_" and the extension
TextPart(file, extension) == SubSeq(file, 10, Len(file) - Len(extension))

\* C21: process_text_file returns the number of images it saved, which is
\* the number of non-blank lines of the input when every save succeeds; the
\* i-th non-blank line is written to line_<i, 3 digits>_<text><ext> whose
\* text part holds only alphanumerics, space, underscore and hyphen and is
\* at most 50 characters long, and distinct lines never share an output file.
C21_OneImagePerNonBlankLine ==
    TextReturned =>
        LET extension == IMAGE_FORMAT_EXTENSIONS(upper(call.output_format))
            lines == IF call.input = "readable" THEN NonBlank(call.raw) ELSE <<>>
        IN  /\ ret.value = Len(ret.saved)
            /\ ret.failed = {} => ret.value = Len(lines)
            /\ \A k \in 1 .. Len(ret.saved) :
                  LET s == ret.saved[k]
                      text == TextPart(s.file, extension)
                  IN  /\ s.idx \in 1 .. Len(lines)
                      /\ s.line = lines[s.idx]
                      /\ SubSeq(s.file, 1, 5) = <<"l", "i", "n", "e", "_">>
                      /\ SubSeq(s.file, 6, 8) = <<"0", "0", Digits[s.idx + 1]>>
                      /\ s.file[9] = "_"
                      /\ SubSeq(s.file, Len(s.file) - Len(extension) + 1, Len(s.file)) = extension
                      /\ Len(text) <= 50
                      /\ Len(text) = Min(Len(s.line), 50)
                      /\ \A i \in 1 .. Len(text) : text[i] \in Alnum \cup {" ", "_", "-"}
            /\ \A j, k \in 1 .. Len(ret.saved) : j # k => ret.saved[j].file # ret.saved[k].file

\* C21 witness: two lines saved, the first after a blank line, the first
\* and the second agreeing on their first 50 characters
C21_Witness ==
    /\ TextReturned
    /\ Len(call.raw) = 3
    /\ ret.value = 2
    /\ call.raw[1] = <<" ", "\t">>
    /\ Len(ret.saved[1].line) = 51
    /\ Len(ret.saved[2].line) = 52
    /\ TextPart(ret.saved[1].file, <<".", "p", "n", "g">>) = TextPart(ret.saved[2].file, <<".", "p", "n", "g">>)
    /\ ret.saved[1].file # ret.saved[2].file

\* C21 witness: a line whose characters are replaced, and one save failing
C21_WitnessSanitised ==
    /\ TextReturned
    /\ ret.failed # {}
    /\ \E k \in 1 .. Len(ret.saved) :
          /\ ret.saved[k].line = <<"a", "/", "b">>
          /\ ret.saved[k].file = <<"l", "i", "n", "e", "_", "0", "0", "2", "_", "a", "_", "b", ".", "j", "p", "g">>

(***************************************************************************)
(* format_utils.py: should_convert_format                                  *)
(***************************************************************************)
LOSSY_FORMATS == {"JPEG", "JPG", "WEBP"}
LOSSLESS_FORMATS == {"PNG", "BMP", "TIFF", "GIF"}
TRANSPARENCY_FORMATS == {"PNG", "WEBP", "GIF", "TIFF"}
FORMAT_JPEG == "JPEG"

\* messages.transparency_loss_warning, quality_loss_warning and
\* jpeg_transparency_warning: the text with the names it is formatted with
transparency_loss_warning(source, target) ==
    <<"Converting from ", source, " to ", target, " will lose transparency">>
quality_loss_warning(source, target) ==
    <<"Converting from lossless ", source, " to lossy ", target, " will degrade quality">>
jpeg_transparency_warning ==
    <<"JPEG does not support transparency. Consider using PNG or WEBP instead.">>

\* mutant: the names are compared as they were given
should_convert_format_case_sensitive(source_format, target_format, has_transparency) ==
    LET source == source_format
        target == target_format
        loses_transparency ==
            has_transparency /\ source \in TRANSPARENCY_FORMATS /\ target \notin TRANSPARENCY_FORMATS
        loses_quality == source \in LOSSLESS_FORMATS /\ target \in LOSSY_FORMATS
        jpeg_with_alpha == target = FORMAT_JPEG /\ has_transparency
    IN  IF source = target
        THEN [should_convert |-> FALSE, will_lose_transparency |-> FALSE,
              will_lose_quality |-> FALSE, recommended |-> TRUE, warnings |-> <<>>]
        ELSE [should_convert |-> TRUE,
              will_lose_transparency |-> loses_transparency,
              will_lose_quality |-> loses_quality,
              recommended |-> ~jpeg_with_alpha,
              warnings |->
                  (IF loses_transparency THEN <<transparency_loss_warning(source, target)>> ELSE <<>>)
                  \o (IF loses_quality THEN <<quality_loss_warning(source, target)>> ELSE <<>>)
                  \o (IF jpeg_with_alpha THEN <<jpeg_transparency_warning>> ELSE <<>>)]

should_convert_format(source_format, target_format, has_transparency) ==
    LET source == upper(source_format)
        target == upper(target_format)
        loses_transparency ==
            has_transparency /\ source \in TRANSPARENCY_FORMATS /\ target \notin TRANSPARENCY_FORMATS
        loses_quality == source \in LOSSLESS_FORMATS /\ target \in LOSSY_FORMATS
        jpeg_with_alpha == target = FORMAT_JPEG /\ has_transparency
    IN  IF source = target
        THEN [should_convert |-> FALSE, will_lose_transparency |-> FALSE,
              will_lose_quality |-> FALSE, recommended |-> TRUE, warnings |-> <<>>]
        ELSE [should_convert |-> TRUE,
              will_lose_transparency |-> loses_transparency,
              will_lose_quality |-> loses_quality,
              recommended |-> ~jpeg_with_alpha,
              warnings |->
                  (IF loses_transparency THEN <<transparency_loss_warning(source, target)>> ELSE <<>>)
                  \o (IF loses_quality THEN <<quality_loss_warning(source, target)>> ELSE <<>>)
                  \o (IF jpeg_with_alpha THEN <<jpeg_transparency_warning>> ELSE <<>>)]

\* format names as a caller writes them, an unknown one among them
FormatNames ==
    {"PNG", "png", "Png", "JPEG", "jpeg", "Jpeg", "JPG", "jpg",
     "WEBP", "webp", "GIF", "BMP", "bmp", "TIFF", "xyz"}

InitFormat ==
    /\ BatchIdle
    /\ gpc = "call"
    /\ ret = <<>>
    /\ \E source_format \in FormatNames, target_format \in FormatNames,
          has_transparency \in BOOLEAN :
          call = [fn |-> "should_convert_format", source_format |-> source_format,
                  target_format |-> target_format, has_transparency |-> has_transparency]

CallShouldConvertFormat ==
    /\ gpc = "call"
    /\ call.fn = "should_convert_format"
    /\ ret' = should_convert_format(call.source_format, call.target_format, call.has_transparency)
    /\ gpc' = "returned"
    /\ UNCHANGED <<call, batchVars>>

NextFormat == CallShouldConvertFormat

SpecFormat == InitFormat /\ [][NextFormat]_vars

FormatReturned ==
    /\ call # <<>>
    /\ call.fn = "should_convert_format"
    /\ gpc = "returned"

\* two names that differ at most in the case of their letters
SameNameIgnoringCase(a, b) ==
    \E group \in {{"PNG", "png", "Png"}, {"JPEG", "jpeg", "Jpeg"}, {"JPG", "jpg"},
                  {"WEBP", "webp"}, {"GIF"}, {"BMP", "bmp"}, {"TIFF"}, {"xyz"}} :
        a \in group /\ b \in group

\* the name in capitals that a name stands for
IsNamed(a, canonical) == SameNameIgnoringCase(a, canonical)

SupportsTransparency(a) == \E f \in {"PNG", "WEBP", "GIF", "TIFF"} : IsNamed(a, f)
IsLossless(a) == \E f \in {"PNG", "BMP", "TIFF", "GIF"} : IsNamed(a, f)
IsLossy(a) == \E f \in {"JPEG", "JPG", "WEBP"} : IsNamed(a, f)

\* C22: should_convert_format compares format names case-insensitively;
\* should_convert is true iff source and target differ; for equal formats
\* every loss flag is false, recommended is true and warnings is empty;
\* otherwise will_lose_transparency holds iff the image has transparency,
\* the source supports it and the target does not, will_lose_quality iff
\* the source is lossless and the target lossy, recommended is false iff
\* the target is JPEG and the image has transparency, and warnings is
\* non-empty exactly when one of these three conditions holds.
C22_ConversionAdvice ==
    FormatReturned =>
        LET s == call.source_format
            t == call.target_format
            same == SameNameIgnoringCase(s, t)
            transparency == call.has_transparency /\ SupportsTransparency(s) /\ ~SupportsTransparency(t)
            quality == IsLossless(s) /\ IsLossy(t)
            jpeg == IsNamed(t, "JPEG") /\ call.has_transparency
        IN  /\ ret.should_convert = ~same
            /\ same => /\ ~ret.will_lose_transparency
                       /\ ~ret.will_lose_quality
                       /\ ret.recommended
                       /\ ret.warnings = <<>>
            /\ ~same => /\ ret.will_lose_transparency = transparency
                        /\ ret.will_lose_quality = quality
                        /\ ret.recommended = ~jpeg
                        /\ (ret.warnings # <<>>) = (transparency \/ quality \/ jpeg)

\* C22 witness: lower-case names of a transparent PNG converted to JPEG give
\* all three warnings
C22_Witness ==
    /\ FormatReturned
    /\ call.source_format = "png"
    /\ call.target_format = "jpeg"
    /\ call.has_transparency
    /\ ret.should_convert
    /\ ret.will_lose_transparency
    /\ ret.will_lose_quality
    /\ ~ret.recommended
    /\ Len(ret.warnings) = 3

\* C22 witness: the same format written in two cases needs no conversion
C22_WitnessSameFormat ==
    /\ FormatReturned
    /\ call.source_format = "Png"
    /\ call.target_format = "PNG"
    /\ call.has_transparency
    /\ ~ret.should_convert
    /\ ret.warnings = <<>>

(***************************************************************************)
(* Properties of the fades of create_video_with_duration (SpecDuration)    *)
(***************************************************************************)
\* a call with fades enabled has got past the frame counts
FadingCall ==
    /\ call # <<>>
    /\ call.fn = "create_video_with_duration"
    /\ call.apply_fades
    /\ call.opened
    /\ call.target_duration.kind = "finite"
    /\ call.fade_duration.kind = "finite"
    /\ Len(call.frames) >= 1
    /\ gpc # "call"

\* C25: in create_video_with_duration with fades enabled, for all target
\* frame counts T and fade frame counts F (2F > T and F = 0 among them) no
\* division by zero occurs and the alpha of every written frame lies in
\* [0, 1]: frame k gets alpha k/F when k < F, alpha (T - k)/F when k >= F
\* and k >= T - F, and is written unfaded otherwise.
C25_FadeAlphaWithinUnitInterval ==
    FadingCall =>
        LET T == ret.target_frames
            F == ret.fade_frames
        IN  /\ gpc # "raised"
            /\ Len(ret.alphas) = ret.frames_written
            /\ Len(ret.out) = ret.frames_written
            /\ \A k \in 0 .. ret.frames_written - 1 :
                  LET alpha == ret.alphas[k + 1]
                      source == call.frames[(k % Len(call.frames)) + 1]
                  IN  /\ IF k < F
                         THEN alpha.kind = "alpha" /\ alpha.den > 0 /\ alpha.num * F = k * alpha.den
                         ELSE IF k >= T - F
                         THEN alpha.kind = "alpha" /\ alpha.den > 0 /\ alpha.num * F = (T - k) * alpha.den
                         ELSE alpha.kind = "none" /\ ret.out[k + 1] = source
                      /\ alpha.kind = "alpha" => 0 <= alpha.num /\ alpha.num <= alpha.den

\* C25 witness: 2F > T, the fade in and the fade out overlapping
C25_Witness ==
    /\ FadingCall
    /\ gpc = "returned"
    /\ ret.target_frames = 3
    /\ ret.fade_frames = 2
    /\ ret.alphas = <<Alpha(0, 2), Alpha(1, 2), Alpha(1, 2)>>
    /\ ret.out[1] = <<0>>

\* C25 witness: F = 0 with fades enabled, every frame written unfaded
C25_WitnessNoFadeFrames ==
    /\ FadingCall
    /\ gpc = "returned"
    /\ ret.fade_frames = 0
    /\ ret.target_frames = 2
    /\ ret.alphas = <<NoAlpha("none"), NoAlpha("none")>>

\* C25 witness: a fade in, an unfaded frame and a fade out
C25_WitnessInMiddleOut ==
    /\ FadingCall
    /\ gpc = "returned"
    /\ ret.alphas = <<Alpha(0, 1), NoAlpha("none"), Alpha(1, 1)>>

(***************************************************************************)
(* apply_fade called on its own                                            *)
(***************************************************************************)
\* channel values of the frames, and the alphas of the calls: those the
\* fades compute (k / F), those of the tests, and values outside [0, 1]
ChannelValues == {0, 1, 3, 49, 200, 255}
FadeAlphas ==
    {Alpha(0, 1), Alpha(1, 1), Alpha(1, 2), Alpha(1, 3), Alpha(1, 49), Alpha(7, 10),
     Alpha(2, 1), Alpha(3, 2), Alpha(0 - 1, 2)}

\* frames of one or two channel values
FadeFrames ==
    {<<a>> : a \in ChannelValues} \cup {<<a, b>> : a \in ChannelValues, b \in ChannelValues}

InitFade ==
    /\ BatchIdle
    /\ gpc = "call"
    /\ ret = <<>>
    /\ \E frame \in FadeFrames, alpha \in FadeAlphas :
          call = [fn |-> "apply_fade", frame |-> frame, alpha |-> alpha]

CallApplyFade ==
    /\ gpc = "call"
    /\ call.fn = "apply_fade"
    /\ \E faded \in apply_fade(call.frame, call.alpha) : ret' = faded
    /\ gpc' = "returned"
    /\ UNCHANGED <<call, batchVars>>

NextFade == CallApplyFade

SpecFade == InitFade /\ [][NextFade]_vars

FadeReturned ==
    /\ call # <<>>
    /\ call.fn = "apply_fade"
    /\ gpc = "returned"

\* floor(v * alpha) with the product taken as the float it is computed as;
\* the negative alphas of the model have a power of two as denominator, so
\* that their product is exact
FloorOfProduct(v, alpha) ==
    IF v = 0 \/ alpha.num = 0 THEN 0
    ELSE IF alpha.num > 0 THEN IntOfMul(v, alpha.num, alpha.den)
    ELSE 0 - ((v * (0 - alpha.num) + alpha.den - 1) \div alpha.den)

\* what the claim states of a returned frame
FadedAsStated ==
    /\ Len(ret) = Len(call.frame)
    /\ \A i \in 1 .. Len(ret) : ret[i] = FloorOfProduct(call.frame[i], call.alpha)
    /\ call.alpha.num = call.alpha.den => ret = call.frame
    /\ call.alpha.num = 0 => \A i \in 1 .. Len(ret) : ret[i] = 0
    /\ (0 <= call.alpha.num /\ call.alpha.num <= call.alpha.den) =>
          \A i \in 1 .. Len(ret) : ret[i] \in 0 .. 255 /\ ret[i] <= call.frame[i]

C23_FadeIsFloorOfProductWithinUnitAlpha ==
    (FadeReturned /\ 0 <= call.alpha.num /\ call.alpha.num <= call.alpha.den) =>
        /\ FadedAsStated
        /\ \A i \in 1 .. Len(ret) :
              LET exact == (call.frame[i] * call.alpha.num) \div call.alpha.den
              IN  ret[i] \in {exact - 1, exact}

\* a fade by alpha = 1/2 of a two-channel frame
C23_HalfReached ==
    /\ FadeReturned
    /\ call.alpha = Alpha(1, 2)
    /\ call.frame = <<200, 255>>
    /\ ret = <<100, 127>>

\* 49 * (1 / 49) is the float just below 1: the channel becomes 0
C23_RoundedBelowReached ==
    /\ FadeReturned
    /\ call.alpha = Alpha(1, 49)
    /\ call.frame = <<49>>
    /\ ret = <<0>>

(***************************************************************************)
(* The intermediate dimensions of resize_with_aspect_ratio (SpecFit)       *)
(***************************************************************************)
\* the two dimensions computed before the resize step
IntermediateDimensions ==
    IF call.mode = LETTERBOX
    THEN <<ret.locals.new_width, ret.locals.new_height>>
    ELSE <<ret.locals.crop_width, ret.locals.crop_height>>

\* the exact value, before rounding, of the dimension that is computed
\* from the aspect ratio, as <<numerator, denominator>>
ExactComputedDimension ==
    LET wider == AspectGreater(call.original_width, call.original_height,
                               call.target_width, call.target_height)
    IN  IF call.mode = LETTERBOX
        THEN IF wider THEN <<call.target_width * call.original_height, call.original_width>>
             ELSE <<call.target_height * call.original_width, call.original_height>>
        ELSE IF wider THEN <<call.original_height * call.target_width, call.target_height>>
             ELSE <<call.original_width * call.target_height, call.target_width>>

\* C24: for every positive source size and positive target size, every
\* intermediate dimension computed by resize_with_aspect_ratio (new_width
\* and new_height in LETTERBOX mode, crop_width and crop_height in CROP
\* mode) is at least 1 pixel, so the resize step is never asked for an
\* empty image.
C24_IntermediateDimensionsAtLeastOne ==
    FitReturned =>
        /\ IntermediateDimensions[1] >= 1
        /\ IntermediateDimensions[2] >= 1
        /\ ~ret.raised

\* C24, as the code has it: no dimension is negative, a dimension is 0 only
\* when its exact value is below 1 or is 1 and the float falls just short
\* of it, and the call raises exactly when a dimension is 0.
C24_DimensionZeroOnlyBelowTwo ==
    FitReturned =>
        /\ IntermediateDimensions[1] >= 0
        /\ IntermediateDimensions[2] >= 0
        /\ (IntermediateDimensions[1] = 0 \/ IntermediateDimensions[2] = 0)
              => ExactComputedDimension[1] < 2 * ExactComputedDimension[2]
        /\ ExactComputedDimension[1] >= 2 * ExactComputedDimension[2]
              => IntermediateDimensions[1] >= 1 /\ IntermediateDimensions[2] >= 1
        /\ ret.raised = (IntermediateDimensions[1] = 0 \/ IntermediateDimensions[2] = 0)

\* a letterbox call whose computed width is 0: a 1x2 source into 1x1
C24_ZeroWidthReached ==
    /\ FitReturned
    /\ call.mode = LETTERBOX
    /\ call.original_width = 1 /\ call.original_height = 2
    /\ call.target_width = 1 /\ call.target_height = 1
    /\ ret.locals.new_width = 0
    /\ ret.raised

(***************************************************************************)
(* optimize_images.py: optimize_image step by step.  call holds the        *)
(* arguments and what Image.open finds in the file (format, mode, size),   *)
(* ret the locals, gpc the position.                                       *)
(***************************************************************************)
MODES_REQUIRING_RGB_CONVERSION == {"RGBA", "LA", "P"}
RGB_MODE == "RGB"
DEFAULT_MAX_WEB_WIDTH == 1920
DEFAULT_MAX_WEB_HEIGHT == 1080

\* what Image.open reports of a file: format, mode, and the suffix of its name
OpenedImages ==
    {[format |-> "JPEG", suffix |-> ".jpg", mode |-> m] : m \in {"RGB", "L"}}
    \cup {[format |-> "PNG", suffix |-> ".png", mode |-> m] : m \in {"RGB", "RGBA", "LA", "P", "L"}}
    \cup {[format |-> "WEBP", suffix |-> ".webp", mode |-> m] : m \in {"RGB", "RGBA"}}
    \cup {[format |-> "GIF", suffix |-> ".gif", mode |-> m] : m \in {"P", "L"}}

\* the format argument: None (here "None"), the choices of --format, and
\* "jpeg" as a caller of the function can pass it
FormatArgs == {"None", "jpg", "jpeg", "png", "webp"}

\* output_path: None (here "None") or a path with this suffix
OutputSuffixes == {"None", ".jpg", ".png"}

ImageSizes == {<<800, 600>>, <<3840, 2160>>, <<1000, 2160>>}

\* f".{format.lower()}"
DotLower(format) ==
    CASE format = "jpg" -> ".jpg"
      [] format = "jpeg" -> ".jpeg"
      [] format = "png" -> ".png"
      [] format = "webp" -> ".webp"

\* the encoder img.save chooses from the suffix of the output path
EncoderOf(suffix) ==
    CASE suffix \in {".jpg", ".jpeg"} -> "JPEG"
      [] suffix = ".png" -> "PNG"
      [] suffix = ".webp" -> "WEBP"
      [] suffix = ".gif" -> "GIF"

\* the JPEG encoder refuses the modes with alpha or a palette
JpegWritable(mode) == mode \notin {"RGBA", "LA", "P"}

\* output_format == "JPEG" and img.mode in MODES_REQUIRING_RGB_CONVERSION
NeedsFlatten(output_format, mode) ==
    output_format = "JPEG" /\ mode \in MODES_REQUIRING_RGB_CONVERSION

\* img.thumbnail((max_width, max_height)): the size brought within the box,
\* the aspect ratio kept
thumbnail(size, max_width, max_height) ==
    IF size[1] * max_height >= size[2] * max_width
    THEN <<max_width, Max(1, (size[2] * max_width) \div size[1])>>
    ELSE <<Max(1, (size[1] * max_height) \div size[2]), max_height>>

InitOptimize ==
    /\ BatchIdle
    /\ gpc = "call"
    /\ ret = <<>>
    /\ \E exists \in BOOLEAN, img \in OpenedImages, format \in FormatArgs,
          output_suffix \in OutputSuffixes, size \in ImageSizes :
          /\ ~exists => /\ format = "None" /\ output_suffix = "None"
                        /\ size = <<800, 600>> /\ img.format = "JPEG" /\ img.mode = "RGB"
          /\ call = [fn |-> "optimize_image", exists |-> exists, img |-> img,
                     format |-> format, output_suffix |-> output_suffix, size |-> size]

\* input_path.exists(), Image.open and output_format
OptimizeOpen ==
    /\ gpc = "call"
    /\ call.fn = "optimize_image"
    /\ IF ~call.exists
       THEN /\ gpc' = "raised"                                    \* FileNotFoundError
            /\ ret' = [mode |-> "none", size |-> <<0, 0>>, output_format |-> "none",
                       flattened |-> FALSE, resized |-> FALSE, encoder |-> "none",
                       saved_mode |-> "none"]
       ELSE /\ gpc' = "opened"
            /\ ret' = [mode |-> call.img.mode, size |-> call.size,
                       output_format |-> IF call.format # "None" THEN upper(call.format)
                                         ELSE call.img.format,
                       flattened |-> FALSE, resized |-> FALSE, encoder |-> "none",
                       saved_mode |-> "none"]
    /\ UNCHANGED <<call, batchVars>>

\* the image pasted on a white RGB background when the output is JPEG
OptimizeFlatten ==
    /\ gpc = "opened"
    /\ IF NeedsFlatten(ret.output_format, ret.mode)
       THEN ret' = [ret EXCEPT !.mode = RGB_MODE, !.flattened = TRUE]
       ELSE ret' = ret
    /\ gpc' = "converted"
    /\ UNCHANGED <<call, batchVars>>

\* img.thumbnail when the image exceeds max_width or max_height
OptimizeResize ==
    /\ gpc = "converted"
    /\ IF ret.size[1] > DEFAULT_MAX_WEB_WIDTH \/ ret.size[2] > DEFAULT_MAX_WEB_HEIGHT
       THEN ret' = [ret EXCEPT !.size = thumbnail(@, DEFAULT_MAX_WEB_WIDTH, DEFAULT_MAX_WEB_HEIGHT),
                               !.resized = TRUE]
       ELSE ret' = ret
    /\ gpc' = "sized"
    /\ UNCHANGED <<call, batchVars>>

\* the output path and img.save, which raises when the encoder cannot
\* write the mode
OptimizeSave ==
    /\ gpc = "sized"
    /\ LET ext == IF call.format # "None" THEN DotLower(call.format) ELSE call.img.suffix
           suffix == IF call.output_suffix = "None" THEN ext ELSE call.output_suffix
           encoder == EncoderOf(suffix)
       IN  /\ ret' = [ret EXCEPT !.encoder = encoder, !.saved_mode = ret.mode]
           /\ gpc' = IF encoder = "JPEG" /\ ~JpegWritable(ret.mode) THEN "raised" ELSE "returned"
    /\ UNCHANGED <<call, batchVars>>

NextOptimize ==
    \/ OptimizeOpen
    \/ OptimizeFlatten
    \/ OptimizeResize
    \/ OptimizeSave

SpecOptimize == InitOptimize /\ [][NextOptimize]_vars

\* img.save has been called in a call of optimize_image
SaveAttempted ==
    /\ call # <<>>
    /\ call.fn = "optimize_image"
    /\ gpc \in {"returned", "raised"}
    /\ call.exists

\* the output is to be JPEG: format requested as jpg, or no format
\* requested and the input a JPEG
JpegRequested ==
    \/ call.format = "jpg"
    \/ call.format = "None" /\ call.img.format = "JPEG"

\* C26: whenever optimize_image will encode its output as JPEG (format
\* requested as jpg, or no format requested and the input is a JPEG), an
\* image whose mode is RGBA, LA or P is flattened onto a white RGB
\* background before saving, so a JPEG save is never attempted on an image
\* in a mode with alpha or palette.
C26_JpegOutputIsFlattened ==
    (SaveAttempted /\ JpegRequested) =>
        /\ call.img.mode \in {"RGBA", "LA", "P"} => ret.flattened /\ ret.saved_mode = "RGB"
        /\ ret.encoder = "JPEG" => ret.saved_mode \notin {"RGBA", "LA", "P"}

\* C26, as the code has it: the image is flattened exactly when the format
\* is given as jpeg (or is that of a JPEG input) and the mode is RGBA, LA or
\* P; the save raises exactly when the JPEG encoder is given such a mode.
C26_FlattenedOnlyForTheNameJpeg ==
    SaveAttempted =>
        /\ ret.flattened =
              ( /\ call.img.mode \in {"RGBA", "LA", "P"}
                /\ \/ call.format = "jpeg"
                   \/ call.format = "None" /\ call.img.format = "JPEG" )
        /\ ret.flattened => ret.saved_mode = "RGB"
        /\ (gpc = "raised") = (ret.encoder = "JPEG" /\ ret.saved_mode \in {"RGBA", "LA", "P"})

\* --format jpg on an RGBA PNG: not flattened, and the JPEG save raises
C26_UnflattenedJpegSaveReached ==
    /\ SaveAttempted
    /\ call.format = "jpg"
    /\ call.img.mode = "RGBA"
    /\ call.output_suffix = "None"
    /\ ~ret.flattened
    /\ ret.encoder = "JPEG"
    /\ gpc = "raised"

\* format "jpeg" on a palette image: flattened and saved
C26_FlattenedReached ==
    /\ SaveAttempted
    /\ call.format = "jpeg"
    /\ call.img.mode = "P"
    /\ ret.flattened
    /\ ret.resized
    /\ gpc = "returned"

(***************************************************************************)
(* The braces of the header written by image_to_header (SpecHeader)        *)
(***************************************************************************)
\* the number of elements of text equal to c
RECURSIVE CountOf(_, _)
CountOf(c, text) ==
    IF text = <<>> THEN 0
    ELSE (IF Head(text) = c THEN 1 ELSE 0) + CountOf(c, Tail(text))

\* the number of c in the lines of the array
RECURSIVE CountInLines(_, _)
CountInLines(c, lines) ==
    IF lines = <<>> THEN 0 ELSE CountOf(c, Head(lines)) + CountInLines(c, Tail(lines))

\* the number of c in the file from the declaration on
CountInHeader(c) ==
    CountOf(c, ret.declaration) + CountInLines(c, ret.array) + CountOf(c, ret.closing)

\* C27: the header written by image_to_header is one well-formed C array
\* initializer: the declaration line opens exactly one brace and the
\* closing line closes exactly one brace, so opening and closing braces in
\* the file balance.
C27_BracesBalance ==
    HeaderWritten =>
        /\ CountOf("{", ret.declaration) = 1
        /\ CountOf("}", ret.closing) = 1
        /\ CountInHeader("{") = CountInHeader("}")

\* C27, as the code has it: the declaration line opens two braces, the
\* closing line closes one and ends the statement, and no line of the array
\* holds a brace.
C27_TwoBracesOpenedOneClosed ==
    HeaderWritten =>
        /\ CountOf("{", ret.declaration) = 2
        /\ CountOf("}", ret.declaration) = 0
        /\ ret.closing = <<"}", ";", "\n">>
        /\ CountInLines("{", ret.array) = 0
        /\ CountInLines("}", ret.array) = 0
        /\ CountInHeader("{") = 2
        /\ CountInHeader("}") = 1

\* a header of two array lines written to its end
C27_HeaderOfTwoLinesReached ==
    /\ HeaderWritten
    /\ Len(ret.array) = 2
    /\ ret.declaration[2] = "{" /\ ret.declaration[3] = "{"

(***************************************************************************)
(* image_to_video.py: main on a folder, with the names of the files.       *)
(* A name is [stem, suffix]; call holds the entries of the input folder    *)
(* and --format, ret the locals of main and the files of the output        *)
(* folder, each with the input it was last written from.                   *)
(***************************************************************************)
Stems == <<"a", "b">>
\* suffixes in the order of their strings: capitals sort first
SuffixOrder == <<".JPG", ".jpg", ".png", ".txt">>

RankIn(x, seq) == CHOOSE i \in 1 .. Len(seq) : seq[i] = x

\* Path ordering of two names of the model: by stem, then by suffix
NameBefore(m, n) ==
    \/ RankIn(m.stem, Stems) < RankIn(n.stem, Stems)
    \/ m.stem = n.stem /\ RankIn(m.suffix, SuffixOrder) <= RankIn(n.suffix, SuffixOrder)

\* sorted(paths)
RECURSIVE SortedNames(_)
SortedNames(S) ==
    IF S = {} THEN <<>>
    ELSE LET first == CHOOSE n \in S : \A m \in S : NameBefore(n, m)
         IN  <<first>> \o SortedNames(S \ {first})

\* str.lower on the suffixes of the model
SuffixLower(suffix) == IF suffix = ".JPG" THEN ".jpg" ELSE suffix

InputNames == {[stem |-> Stems[i], suffix |-> SuffixOrder[j]] :
                  i \in 1 .. Len(Stems), j \in 1 .. Len(SuffixOrder)}

\* the input folders: at most MaxFiles entries, each readable by the video
\* library or not
InputFolders ==
    UNION {[names -> BOOLEAN] : names \in {S \in SUBSET InputNames : Cardinality(S) <= MaxFiles}}

VideoFormats == {"mp4", "mov"}

\* output_dir / f"{img.stem}.{args.format}"
OutputName(img, format) == [stem |-> img.stem, suffix |-> format]

InitVideoBatch ==
    /\ BatchIdle
    /\ gpc = "call"
    /\ ret = <<>>
    /\ \E entries \in InputFolders, format \in VideoFormats :
          call = [fn |-> "image_to_video.main", entries |-> entries, format |-> format]

\* from the listing of the input folder to the loop
ListImages ==
    /\ gpc = "call"
    /\ call.fn = "image_to_video.main"
    /\ LET images == SortedNames({f \in DOMAIN call.entries :
                                     SuffixLower(f.suffix) \in IMAGE_EXTENSIONS})
       IN  /\ ret' = [images |-> images, idx |-> 0, success_count |-> 0, fail_count |-> 0,
                      converted |-> <<>>, output_dir |-> <<>>]
           /\ gpc' = IF images = <<>> THEN "returned" ELSE "loop"
    /\ UNCHANGED <<call, batchVars>>

\* one turn of for idx, img in enumerate(images, 1): the video is written
\* to output, replacing a file of that name, or image_to_video raises
ConvertImage ==
    /\ gpc = "loop"
    /\ call.fn = "image_to_video.main"
    /\ ret.idx < Len(ret.images)
    /\ LET img == ret.images[ret.idx + 1]
           output == OutputName(img, call.format)
           others == SelectSeq(ret.output_dir, LAMBDA o : o.name # output)
       IN  IF call.entries[img]
           THEN ret' = [ret EXCEPT
                          !.idx = @ + 1,
                          !.success_count = @ + 1,
                          !.converted = Append(@, [input |-> img, output |-> output]),
                          !.output_dir = Append(others, [name |-> output, from |-> img])]
           ELSE ret' = [ret EXCEPT !.idx = @ + 1, !.fail_count = @ + 1]
    /\ UNCHANGED <<call, gpc, batchVars>>

\* the summary after the loop
SummariseVideos ==
    /\ gpc = "loop"
    /\ call.fn = "image_to_video.main"
    /\ ret.idx = Len(ret.images)
    /\ gpc' = "returned"
    /\ UNCHANGED <<call, ret, batchVars>>

NextVideoBatch ==
    \/ ListImages
    \/ ConvertImage
    \/ SummariseVideos

SpecVideoBatch == InitVideoBatch /\ [][NextVideoBatch]_vars

VideoBatchEnded ==
    /\ call # <<>>
    /\ call.fn = "image_to_video.main"
    /\ gpc = "returned"

\* C28: within one batch run of image_to_video, distinct input images are
\* written to distinct output paths: no output video of the run overwrites
\* the output of another input of the same run.
C28_DistinctOutputsPerInput ==
    VideoBatchEnded =>
        /\ \A i, j \in 1 .. Len(ret.converted) :
              i # j => ret.converted[i].output # ret.converted[j].output
        /\ Len(ret.output_dir) = ret.success_count

\* C28, as the code has it: two inputs get the same output path exactly
\* when their stems agree, and the output folder ends with one video per
\* stem converted, written from the last input of that stem.
C28_OutputsDistinctPerStem ==
    VideoBatchEnded =>
        /\ \A i, j \in 1 .. Len(ret.converted) :
              (ret.converted[i].output = ret.converted[j].output)
                  = (ret.converted[i].input.stem = ret.converted[j].input.stem)
        /\ Len(ret.output_dir)
              = Cardinality({ret.converted[i].input.stem : i \in 1 .. Len(ret.converted)})
        /\ \A k \in 1 .. Len(ret.output_dir) :
              \A i \in 1 .. Len(ret.converted) :
                  ret.converted[i].input.stem = ret.output_dir[k].name.stem
                      => NameBefore(ret.converted[i].input, ret.output_dir[k].from)

\* a.jpg and a.png of one folder both converted: one a.mp4 is left, from a.png
C28_OverwriteReached ==
    /\ VideoBatchEnded
    /\ ret.success_count = 2
    /\ ret.converted[1].input = [stem |-> "a", suffix |-> ".jpg"]
    /\ ret.converted[2].input = [stem |-> "a", suffix |-> ".png"]
    /\ ret.output_dir = <<[name |-> [stem |-> "a", suffix |-> "mp4"],
                           from |-> [stem |-> "a", suffix |-> ".png"]]>>

(***************************************************************************)
(* change_video_duration.py: create_video_mapping with the text of its     *)
(* lines.  A file name is a sequence of characters, a mapping line the     *)
(* characters of the name followed by the pieces the f-string adds.  call  *)
(* holds the entries of the input folder, each with whether its duration   *)
(* can be read; ret the locals and the lines written to the mapping file.  *)
(***************************************************************************)
\* the characters of the names of the model in the order of their codes
CharOrder ==
    <<".", "1", "4", "E", "M", "O", "P", "R", "_", "c", "i", "l", "m", "o", "p", "r", "t", "x">>

\* string comparison a <= b
RECURSIVE TextLeq(_, _)
TextLeq(a, b) ==
    IF a = <<>> THEN TRUE
    ELSE IF b = <<>> THEN FALSE
    ELSE IF Head(a) = Head(b) THEN TextLeq(Tail(a), Tail(b))
    ELSE RankIn(Head(a), CharOrder) < RankIn(Head(b), CharOrder)

\* sorted(video_files)
RECURSIVE SortedTexts(_)
SortedTexts(S) ==
    IF S = {} THEN <<>>
    ELSE LET first == CHOOSE n \in S : \A m \in S : TextLeq(n, m)
         IN  <<first>> \o SortedTexts(S \ {first})

\* text ends with suffix
EndsWith(text, suffix) ==
    /\ Len(text) >= Len(suffix)
    /\ SubSeq(text, Len(text) - Len(suffix) + 1, Len(text)) = suffix

\* sub in text
Contains(sub, text) ==
    \E i \in 1 .. Len(text) - Len(sub) + 1 : SubSeq(text, i, i + Len(sub) - 1) = sub

ERROR == <<"E", "R", "R", "O", "R">>

\* "ERROR" not in m
CountsAsProcessed(line) == ~Contains(ERROR, line)

MappingStems ==
    { <<"c", "l", "i", "p">>,
      <<"E", "R", "R", "O", "R", "_", "1">>,
      <<"i", "n", "t", "r", "o">> }

MappingSuffixes == {<<".", "m", "p", "4">>, <<".", "M", "P", "4">>, <<".", "t", "x", "t">>}

MappingNames == {stem \o suffix : stem \in MappingStems, suffix \in MappingSuffixes}

\* the input folders: at most MaxFiles entries, each with a duration that
\* can be read or not
MappingFolders ==
    UNION {[names -> BOOLEAN] : names \in {S \in SUBSET MappingNames : Cardinality(S) <= MaxFiles}}

\* get_video_files: glob(f"*{ext}") for the extensions of VIDEO_EXTENSIONS
\* (".mp4" the one among the suffixes of the model), sorted
VideoFilesOf(entries) ==
    SortedTexts({n \in DOMAIN entries : EndsWith(n, <<".", "m", "p", "4">>)})

\* f"{video_filename} - Original: {duration:.2f}s, Target: {target_duration:.2f}s"
\* and f"{video_filename} - ERROR"
MappingLine(video_filename, readable) ==
    IF readable
    THEN video_filename \o <<" ", "-", " ", "Original: ", "{duration:.2f}", "s, Target: ",
                             "{target_duration:.2f}", "s">>
    ELSE video_filename \o <<" ", "-", " ">> \o ERROR

InitMapping ==
    /\ BatchIdle
    /\ gpc = "call"
    /\ ret = <<>>
    /\ \E entries \in MappingFolders :
          call = [fn |-> "create_video_mapping", entries |-> entries]

\* get_video_files and the test of its result
FindVideos ==
    /\ gpc = "call"
    /\ call.fn = "create_video_mapping"
    /\ LET video_files == VideoFilesOf(call.entries)
       IN  /\ ret' = [video_files |-> video_files, idx |-> 0, mapping |-> <<>>,
                      file |-> <<>>, total |-> 0,
                      printed |-> IF video_files = <<>> THEN {"folder_not_exist_error"} ELSE {}]
           /\ gpc' = IF video_files = <<>> THEN "returned" ELSE "loop"
    /\ UNCHANGED <<call, batchVars>>

\* one turn of for video_path in video_files
MapVideo ==
    /\ gpc = "loop"
    /\ call.fn = "create_video_mapping"
    /\ ret.idx < Len(ret.video_files)
    /\ LET video_filename == ret.video_files[ret.idx + 1]
       IN  ret' = [ret EXCEPT
                     !.idx = @ + 1,
                     !.mapping = Append(@, MappingLine(video_filename, call.entries[video_filename]))]
    /\ UNCHANGED <<call, gpc, batchVars>>

\* the mapping file is written and the total printed
WriteMapping ==
    /\ gpc = "loop"
    /\ call.fn = "create_video_mapping"
    /\ ret.idx = Len(ret.video_files)
    /\ ret' = [ret EXCEPT
                 !.file = ret.mapping,
                 !.total = Len(SelectSeq(ret.mapping, CountsAsProcessed)),
                 !.printed = @ \cup {"mapping_saved_success", "total_processed_info"}]
    /\ gpc' = "returned"
    /\ UNCHANGED <<call, batchVars>>

NextMapping ==
    \/ FindVideos
    \/ MapVideo
    \/ WriteMapping

SpecMapping == InitMapping /\ [][NextMapping]_vars

\* a mapping file has been written
MappingWritten ==
    /\ call # <<>>
    /\ call.fn = "create_video_mapping"
    /\ gpc = "returned"
    /\ "mapping_saved_success" \in ret.printed

\* the videos of the input folder
DiscoveredVideos == {n \in DOMAIN call.entries : EndsWith(n, <<".", "m", "p", "4">>)}

\* the line of the file at position k is that of video n
LineOf(k, n) ==
    /\ SubSeq(ret.file[k], 1, Len(n) + 3) = n \o <<" ", "-", " ">>
    /\ EndsWith(ret.file[k], ERROR) = ~call.entries[n]

\* one line per discovered video, in sorted order of the names
OneLinePerVideoSorted ==
    /\ Len(ret.file) = Cardinality(DiscoveredVideos)
    /\ \A n \in DiscoveredVideos : \E k \in 1 .. Len(ret.file) : LineOf(k, n)
    /\ \A j, k \in 1 .. Len(ret.file) :
          j < k => \E m, n \in DiscoveredVideos :
                      LineOf(j, m) /\ LineOf(k, n) /\ m # n /\ TextLeq(m, n)

\* C29: create_video_mapping writes exactly one mapping line per discovered
\* video, in sorted filename order, and the total it reports as processed
\* equals the number of videos whose duration could be read (the number of
\* lines not recorded as a failure), for every set of filenames.
C29_OneLinePerVideoAndTotalOfReadable ==
    MappingWritten =>
        /\ OneLinePerVideoSorted
        /\ ret.total = Cardinality({n \in DiscoveredVideos : call.entries[n]})

\* C29, as the code has it: one line per discovered video in sorted order;
\* the total is the number of readable videos whose name does not hold
\* the word ERROR.
C29_TotalOfReadableWithoutErrorInName ==
    MappingWritten =>
        /\ OneLinePerVideoSorted
        /\ ret.total = Cardinality({n \in DiscoveredVideos :
                                       call.entries[n] /\ ~Contains(ERROR, n)})

\* ERROR_1.mp4 and clip.mp4, both readable, are mapped and 1 is reported
C29_MiscountReached ==
    /\ MappingWritten
    /\ Len(ret.file) = 2
    /\ \A n \in DiscoveredVideos : call.entries[n]
    /\ SubSeq(ret.file[1], 1, 5) = ERROR
    /\ EndsWith(ret.file[1], <<"s">>)
    /\ ret.total = 1

(***************************************************************************)
(* Discovery and the classification helpers of constants.py (SpecDiscover) *)
(***************************************************************************)
\* constants.is_image_file and is_video_file, on an entry of the model
is_image_file(f) == Lower(f.ext) \in IMAGE_EXTENSIONS
is_video_file(f) == Lower(f.ext) \in VIDEO_EXTENSIONS

\* the pipeline batch_process hands a media file to
Pipeline(media_file) ==
    LET ext == Lower(media_file.ext)
        is_image == ext \in IMAGE_EXTENSIONS
    IN  IF is_image THEN "process_image" ELSE "process_video"

ReturnedFiles == {ret.files[i] : i \in 1 .. Len(ret.files)}

\* C30: file discovery agrees with the classification helpers: every file
\* of the folder that is_image_file (is_video_file) classifies as an image
\* (a video), comparing the extension case-insensitively, is returned by
\* get_media_files for the matching media type and is dispatched by
\* batch_process to the image (video) pipeline, never to both.
C30_DiscoveryAgreesWithClassifiers ==
    (DiscoverReturned /\ call.exists) =>
        \A f \in call.dir :
            /\ (f.is_file /\ is_image_file(f) /\ call.media_type \in {"images", "both"})
                  => f \in ReturnedFiles /\ Pipeline(f) = "process_image"
            /\ (f.is_file /\ is_video_file(f) /\ call.media_type \in {"videos", "both"})
                  => f \in ReturnedFiles /\ Pipeline(f) = "process_video"
            /\ ~(is_image_file(f) /\ is_video_file(f))

\* C30, as the code has it: the files whose suffix is written in lower case
\* are returned when a helper classifies them for the requested type, and
\* whatever is returned is classified by exactly one helper and handed to
\* the pipeline of that helper.
C30_LowerCaseSuffixesAgree ==
    (DiscoverReturned /\ call.exists) =>
        /\ \A f \in call.dir :
              (f.ext = Lower(f.ext) /\
               \/ is_image_file(f) /\ call.media_type \in {"images", "both"}
               \/ is_video_file(f) /\ call.media_type \in {"videos", "both"})
                  => f \in ReturnedFiles
        /\ \A f \in ReturnedFiles :
              /\ is_image_file(f) # is_video_file(f)
              /\ is_image_file(f) => Pipeline(f) = "process_image"
              /\ is_video_file(f) => Pipeline(f) = "process_video"

\* a folder with a file whose suffix is .JPG and one whose suffix is .jpg:
\* only the second is returned
C30_UpperCaseSuffixMissedReached ==
    /\ DiscoverReturned
    /\ call.exists
    /\ call.media_type = "images"
    /\ \E f, g \in call.dir :
          /\ f.is_file /\ f.ext = ".JPG" /\ is_image_file(f) /\ f \notin ReturnedFiles
          /\ g.is_file /\ g.ext = ".jpg" /\ g \in ReturnedFiles

====
